---- MODULE Spec2Model ----
(***************************************************************************)
(* GPU-PreAgg planning (src/next/gpu_preagg.c): the static catalog of      *)
(* splittable aggregate functions, the hashed resolver cache built over    *)
(* the live function catalog, the rewriting of the upper target list and   *)
(* HAVING predicate into a partial and a final stage, and the assembly of  *)
(* the partial / gather / final aggregation paths.                         *)
(***************************************************************************)
EXTENDS Integers, Sequences, FiniteSets, TLC

(***************************************************************************)
(* aggfunc_catalog_t and aggfunc_catalog_array                             *)
(***************************************************************************)
Cat(aggfn, finalfn, partfn, action, numeric) ==
    [aggfn_signature   |-> aggfn,
     finalfn_signature |-> finalfn,
     partfn_signature  |-> partfn,
     partfn_action     |-> action,
     numeric_aware     |-> numeric]

aggfunc_catalog_array ==
  <<
    Cat("count()", "s:sum(int8)", "s:nrows()", "KAGG_ACTION__NROWS_ANY", FALSE),
    Cat("count(any)", "s:sum(int8)", "s:nrows(any)", "KAGG_ACTION__NROWS_COND", FALSE),
    Cat("min(int1)", "s:min_i1(bytea)", "s:pmin(int1)", "KAGG_ACTION__PMIN_INT", FALSE),
    Cat("min(int2)", "s:min_i2(bytea)", "s:pmin(int2)", "KAGG_ACTION__PMIN_INT", FALSE),
    Cat("min(int4)", "s:min_i4(bytea)", "s:pmin(int4)", "KAGG_ACTION__PMIN_INT", FALSE),
    Cat("min(int8)", "s:min_i8(bytea)", "s:pmin(int8)", "KAGG_ACTION__PMIN_INT", FALSE),
    Cat("min(float2)", "s:min_f2(bytea)", "s:pmin(float4)", "KAGG_ACTION__PMIN_FP", FALSE),
    Cat("min(float4)", "s:min_f4(bytea)", "s:pmin(float4)", "KAGG_ACTION__PMIN_FP", FALSE),
    Cat("min(float8)", "s:min_f8(bytea)", "s:pmin(float8)", "KAGG_ACTION__PMIN_FP", FALSE),
    Cat("min(numeric)", "s:min_num(bytea)", "s:pmin(float8)", "KAGG_ACTION__PMIN_FP", TRUE),
    Cat("min(money)", "s:min_cash(bytea)", "s:pmin(money)", "KAGG_ACTION__PMIN_INT", FALSE),
    Cat("min(date)", "s:min_date(bytea)", "s:pmin(date)", "KAGG_ACTION__PMIN_INT", FALSE),
    Cat("min(time)", "s:min_time(bytea)", "s:pmin(time)", "KAGG_ACTION__PMIN_INT", FALSE),
    Cat("min(timestamp)", "s:min_ts(bytea)", "s:pmin(timestamp)", "KAGG_ACTION__PMIN_INT", FALSE),
    Cat("min(timestamptz)", "s:min_tstz(bytea)", "s:pmin(timestamptz)", "KAGG_ACTION__PMIN_INT", FALSE),
    Cat("max(int1)", "s:max_i1(bytea)", "s:pmax(int1)", "KAGG_ACTION__PMAX_INT", FALSE),
    Cat("max(int2)", "s:max_i2(bytea)", "s:pmax(int2)", "KAGG_ACTION__PMAX_INT", FALSE),
    Cat("max(int4)", "s:max_i4(bytea)", "s:pmax(int4)", "KAGG_ACTION__PMAX_INT", FALSE),
    Cat("max(int8)", "s:max_i8(bytea)", "s:pmax(int8)", "KAGG_ACTION__PMAX_INT", FALSE),
    Cat("max(float2)", "s:max_f2(bytea)", "s:pmax(float4)", "KAGG_ACTION__PMAX_FP", FALSE),
    Cat("max(float4)", "s:max_f4(bytea)", "s:pmax(float4)", "KAGG_ACTION__PMAX_FP", FALSE),
    Cat("max(float8)", "s:max_f8(bytea)", "s:pmax(float8)", "KAGG_ACTION__PMAX_FP", FALSE),
    Cat("max(numeric)", "s:max_num(bytea)", "s:pmax(float8)", "KAGG_ACTION__PMAX_FP", TRUE),
    Cat("max(money)", "s:max_cash(bytea)", "s:pmax(money)", "KAGG_ACTION__PMAX_INT", FALSE),
    Cat("max(date)", "s:max_date(bytea)", "s:pmax(date)", "KAGG_ACTION__PMAX_INT", FALSE),
    Cat("max(time)", "s:max_time(bytea)", "s:pmax(time)", "KAGG_ACTION__PMAX_INT", FALSE),
    Cat("max(timestamp)", "s:max_ts(bytea)", "s:pmax(timestamp)", "KAGG_ACTION__PMAX_INT", FALSE),
    Cat("max(timestamptz)", "s:max_tstz(bytea)", "s:pmax(timestamptz)", "KAGG_ACTION__PMAX_INT", FALSE),
    Cat("sum(int1)", "s:sum(int8)", "s:psum(int8)", "KAGG_ACTION__PSUM_INT", FALSE),
    Cat("sum(int2)", "s:sum(int8)", "s:psum(int8)", "KAGG_ACTION__PSUM_INT", FALSE),
    Cat("sum(int4)", "s:sum(int8)", "s:psum(int8)", "KAGG_ACTION__PSUM_INT", FALSE),
    Cat("sum(int8)", "c:sum(int8)", "s:psum(int8)", "KAGG_ACTION__PSUM_INT", FALSE),
    Cat("sum(float2)", "c:sum(float8)", "s:psum(float4)", "KAGG_ACTION__PSUM_FP", FALSE),
    Cat("sum(float4)", "s:sum_f4(float8)", "s:psum(float4)", "KAGG_ACTION__PSUM_FP", FALSE),
    Cat("sum(float8)", "c:sum(float8)", "s:psum(float8)", "KAGG_ACTION__PSUM_FP", FALSE),
    Cat("sum(numeric)", "s:sum_num(float8)", "s:psum(float8)", "KAGG_ACTION__PSUM_FP", TRUE),
    Cat("sum(money)", "s:sum_cash(int8)", "s:psum(money)", "KAGG_ACTION__PSUM_INT", FALSE),
    Cat("avg(int1)", "s:avg_int(bytea)", "s:pavg(int8)", "KAGG_ACTION__PAVG_INT", FALSE),
    Cat("avg(int2)", "s:avg_int(bytea)", "s:pavg(int8)", "KAGG_ACTION__PAVG_INT", FALSE),
    Cat("avg(int4)", "s:avg_int(bytea)", "s:pavg(int8)", "KAGG_ACTION__PAVG_INT", FALSE),
    Cat("avg(int8)", "s:avg_int(bytea)", "s:pavg(int8)", "KAGG_ACTION__PAVG_INT", FALSE),
    Cat("avg(float2)", "s:avg_fp(bytea)", "s:pavg(float8)", "KAGG_ACTION__PAVG_FP", FALSE),
    Cat("avg(float4)", "s:avg_fp(bytea)", "s:pavg(float8)", "KAGG_ACTION__PAVG_FP", FALSE),
    Cat("avg(float8)", "s:avg_fp(bytea)", "s:pavg(float8)", "KAGG_ACTION__PAVG_FP", FALSE),
    Cat("avg(numeric)", "s:avg_num(bytea)", "s:pavg(float8)", "KAGG_ACTION__PAVG_FP", TRUE),
    Cat("stddev(int1)", "s:stddev_samp(bytea)", "s:pvariance(float8)", "KAGG_ACTION__STDDEV", FALSE),
    Cat("stddev(int2)", "s:stddev_samp(bytea)", "s:pvariance(float8)", "KAGG_ACTION__STDDEV", FALSE),
    Cat("stddev(int4)", "s:stddev_samp(bytea)", "s:pvariance(float8)", "KAGG_ACTION__STDDEV", FALSE),
    Cat("stddev(int8)", "s:stddev_samp(bytea)", "s:pvariance(float8)", "KAGG_ACTION__STDDEV", FALSE),
    Cat("stddev(float2)", "s:stddev_sampf(bytea)", "s:pvariance(float8)", "KAGG_ACTION__STDDEV", FALSE),
    Cat("stddev(float4)", "s:stddev_sampf(bytea)", "s:pvariance(float8)", "KAGG_ACTION__STDDEV", FALSE),
    Cat("stddev(float8)", "s:stddev_sampf(bytea)", "s:pvariance(float8)", "KAGG_ACTION__STDDEV", FALSE),
    Cat("stddev(numeric)", "s:stddev_samp(bytea)", "s:pvariance(float8)", "KAGG_ACTION__STDDEV", TRUE),
    Cat("stddev_samp(int1)", "s:stddev_samp(bytea)", "s:pvariance(float8)", "KAGG_ACTION__STDDEV", FALSE),
    Cat("stddev_samp(int2)", "s:stddev_samp(bytea)", "s:pvariance(float8)", "KAGG_ACTION__STDDEV", FALSE),
    Cat("stddev_samp(int4)", "s:stddev_samp(bytea)", "s:pvariance(float8)", "KAGG_ACTION__STDDEV", FALSE),
    Cat("stddev_samp(int8)", "s:stddev_samp(bytea)", "s:pvariance(float8)", "KAGG_ACTION__STDDEV", FALSE),
    Cat("stddev_samp(float2)", "s:stddev_sampf(bytea)", "s:pvariance(float8)", "KAGG_ACTION__STDDEV", FALSE),
    Cat("stddev_samp(float4)", "s:stddev_sampf(bytea)", "s:pvariance(float8)", "KAGG_ACTION__STDDEV", FALSE),
    Cat("stddev_samp(float8)", "s:stddev_sampf(bytea)", "s:pvariance(float8)", "KAGG_ACTION__STDDEV", FALSE),
    Cat("stddev_samp(numeric)", "s:stddev_samp(bytea)", "s:pvariance(float8)", "KAGG_ACTION__STDDEV", TRUE),
    Cat("stddev_pop(int1)", "s:stddev_pop(bytea)", "s:pvariance(float8)", "KAGG_ACTION__STDDEV", FALSE),
    Cat("stddev_pop(int2)", "s:stddev_pop(bytea)", "s:pvariance(float8)", "KAGG_ACTION__STDDEV", FALSE),
    Cat("stddev_pop(int4)", "s:stddev_pop(bytea)", "s:pvariance(float8)", "KAGG_ACTION__STDDEV", FALSE),
    Cat("stddev_pop(int8)", "s:stddev_pop(bytea)", "s:pvariance(float8)", "KAGG_ACTION__STDDEV", FALSE),
    Cat("stddev_pop(float2)", "s:stddev_popf(bytea)", "s:pvariance(float8)", "KAGG_ACTION__STDDEV", FALSE),
    Cat("stddev_pop(float4)", "s:stddev_popf(bytea)", "s:pvariance(float8)", "KAGG_ACTION__STDDEV", FALSE),
    Cat("stddev_pop(float8)", "s:stddev_popf(bytea)", "s:pvariance(float8)", "KAGG_ACTION__STDDEV", FALSE),
    Cat("stddev_pop(numeric)", "s:stddev_pop(bytea)", "s:pvariance(float8)", "KAGG_ACTION__STDDEV", TRUE),
    Cat("variance(int1)", "s:var_samp(bytea)", "s:pvariance(float8)", "KAGG_ACTION__STDDEV", FALSE),
    Cat("variance(int2)", "s:var_samp(bytea)", "s:pvariance(float8)", "KAGG_ACTION__STDDEV", FALSE),
    Cat("variance(int4)", "s:var_samp(bytea)", "s:pvariance(float8)", "KAGG_ACTION__STDDEV", FALSE),
    Cat("variance(int8)", "s:var_samp(bytea)", "s:pvariance(float8)", "KAGG_ACTION__STDDEV", FALSE),
    Cat("variance(float2)", "s:var_sampf(bytea)", "s:pvariance(float8)", "KAGG_ACTION__STDDEV", FALSE),
    Cat("variance(float4)", "s:var_sampf(bytea)", "s:pvariance(float8)", "KAGG_ACTION__STDDEV", FALSE),
    Cat("variance(float8)", "s:var_sampf(bytea)", "s:pvariance(float8)", "KAGG_ACTION__STDDEV", FALSE),
    Cat("variance(numeric)", "s:var_samp(bytea)", "s:pvariance(float8)", "KAGG_ACTION__STDDEV", TRUE),
    Cat("var_samp(int1)", "s:var_samp(bytea)", "s:pvariance(float8)", "KAGG_ACTION__STDDEV", FALSE),
    Cat("var_samp(int2)", "s:var_samp(bytea)", "s:pvariance(float8)", "KAGG_ACTION__STDDEV", FALSE),
    Cat("var_samp(int4)", "s:var_samp(bytea)", "s:pvariance(float8)", "KAGG_ACTION__STDDEV", FALSE),
    Cat("var_samp(int8)", "s:var_samp(bytea)", "s:pvariance(float8)", "KAGG_ACTION__STDDEV", FALSE),
    Cat("var_samp(float2)", "s:var_sampf(bytea)", "s:pvariance(float8)", "KAGG_ACTION__STDDEV", FALSE),
    Cat("var_samp(float4)", "s:var_sampf(bytea)", "s:pvariance(float8)", "KAGG_ACTION__STDDEV", FALSE),
    Cat("var_samp(float8)", "s:var_sampf(bytea)", "s:pvariance(float8)", "KAGG_ACTION__STDDEV", FALSE),
    Cat("var_samp(numeric)", "s:var_samp(bytea)", "s:pvariance(float8)", "KAGG_ACTION__STDDEV", TRUE),
    Cat("var_pop(int1)", "s:var_pop(bytea)", "s:pvariance(float8)", "KAGG_ACTION__STDDEV", FALSE),
    Cat("var_pop(int2)", "s:var_pop(bytea)", "s:pvariance(float8)", "KAGG_ACTION__STDDEV", FALSE),
    Cat("var_pop(int4)", "s:var_pop(bytea)", "s:pvariance(float8)", "KAGG_ACTION__STDDEV", FALSE),
    Cat("var_pop(int8)", "s:var_pop(bytea)", "s:pvariance(float8)", "KAGG_ACTION__STDDEV", FALSE),
    Cat("var_pop(float2)", "s:var_popf(bytea)", "s:pvariance(float8)", "KAGG_ACTION__STDDEV", FALSE),
    Cat("var_pop(float4)", "s:var_popf(bytea)", "s:pvariance(float8)", "KAGG_ACTION__STDDEV", FALSE),
    Cat("var_pop(float8)", "s:var_popf(bytea)", "s:pvariance(float8)", "KAGG_ACTION__STDDEV", FALSE),
    Cat("var_pop(numeric)", "s:var_pop(bytea)", "s:pvariance(float8)", "KAGG_ACTION__STDDEV", TRUE),
    Cat("corr(float8,float8)", "s:covar_samp(bytea)", "s:pcovar(float8,float8)", "KAGG_ACTION__COVAR", FALSE),
    Cat("covar_samp(float8,float8)", "s:covar_samp(bytea)", "s:pcovar(float8,float8)", "KAGG_ACTION__COVAR", FALSE),
    Cat("covar_pop(float8,float8)", "s:covar_pop(bytea)", "s:pcovar(float8,float8)", "KAGG_ACTION__COVAR", FALSE),
    Cat("regr_avgx(float8,float8)", "s:regr_avgx(bytea)", "s:pcovar(float8,float8)", "KAGG_ACTION__COVAR", FALSE),
    Cat("regr_avgy(float8,float8)", "s:regr_avgy(bytea)", "s:pcovar(float8,float8)", "KAGG_ACTION__COVAR", FALSE),
    Cat("regr_count(float8,float8)", "s:regr_count(bytea)", "s:pcovar(float8,float8)", "KAGG_ACTION__COVAR", FALSE),
    Cat("regr_intercept(float8,float8)", "s:regr_intercept(bytea)", "s:pcovar(float8,float8)", "KAGG_ACTION__COVAR", FALSE),
    Cat("regr_r2(float8,float8)", "s:regr_r2(bytea)", "s:pcovar(float8,float8)", "KAGG_ACTION__COVAR", FALSE),
    Cat("regr_slope(float8,float8)", "s:regr_slope(bytea)", "s:pcovar(float8,float8)", "KAGG_ACTION__COVAR", FALSE),
    Cat("regr_sxx(float8,float8)", "s:regr_sxx(bytea)", "s:pcovar(float8,float8)", "KAGG_ACTION__COVAR", FALSE),
    Cat("regr_sxy(float8,float8)", "s:regr_sxy(bytea)", "s:pcovar(float8,float8)", "KAGG_ACTION__COVAR", FALSE),
    Cat("regr_syy(float8,float8)", "s:regr_syy(bytea)", "s:pcovar(float8,float8)", "KAGG_ACTION__COVAR", FALSE)
  >>

(***************************************************************************)
(* The live catalogs the resolver consults (pg_type, pg_namespace,         *)
(* pg_proc with its pg_aggregate rows).  Object identifiers are integers.  *)
(***************************************************************************)
PG_CATALOG_NAMESPACE == 11
INT8OID == 20
FLOAT8OID == 701
BYTEAOID == 17
ANYOID == 2276
BOOLOID == 16
NUMERICOID == 1700
InvalidOid == 0

pg_type ==
    { [oid |-> BOOLOID,    typname |-> "bool"],
      [oid |-> BYTEAOID,   typname |-> "bytea"],
      [oid |-> INT8OID,    typname |-> "int8"],
      [oid |-> 21,         typname |-> "int2"],
      [oid |-> 23,         typname |-> "int4"],
      [oid |-> 700,        typname |-> "float4"],
      [oid |-> 790,        typname |-> "money"],
      [oid |-> 1082,       typname |-> "date"],
      [oid |-> 1083,       typname |-> "time"],
      [oid |-> 1114,       typname |-> "timestamp"],
      [oid |-> 1184,       typname |-> "timestamptz"],
      [oid |-> 16385,      typname |-> "int1"],
      [oid |-> 16386,      typname |-> "float2"],
      [oid |-> FLOAT8OID,  typname |-> "float8"],
      [oid |-> NUMERICOID, typname |-> "numeric"],
      [oid |-> ANYOID,     typname |-> "any"] }

pg_namespace ==
    { [oid |-> PG_CATALOG_NAMESPACE, nspname |-> "pg_catalog"],
      [oid |-> 2200,                 nspname |-> "public"],
      [oid |-> 16384,                nspname |-> "pgstrom"] }

Proc(oid, name, nsp, argtypes, rettype, isagg) ==
    [oid |-> oid, proname |-> name, pronamespace |-> nsp,
     pronargs |-> Len(argtypes), proargtypes |-> argtypes,
     prorettype |-> rettype, isagg |-> isagg]

\* identifiers of the aggregate functions a query may call
COUNT_STAR == 2803
SUM_INT8 == 2107
MIN_NUMERIC == 2132
BOOL_AND == 2517
USER_COUNT == 16500
CORR3 == 16501

AggFnOids == {COUNT_STAR, SUM_INT8, MIN_NUMERIC, BOOL_AND, USER_COUNT, CORR3}

\* the aggregate functions of the live catalog
PgProcAggs ==
    { Proc(COUNT_STAR,  "count",    PG_CATALOG_NAMESPACE, <<>>,           INT8OID,    TRUE),
      Proc(SUM_INT8,    "sum",      PG_CATALOG_NAMESPACE, <<INT8OID>>,    NUMERICOID, TRUE),
      Proc(MIN_NUMERIC, "min",      PG_CATALOG_NAMESPACE, <<NUMERICOID>>, NUMERICOID, TRUE),
      Proc(BOOL_AND,    "bool_and", PG_CATALOG_NAMESPACE, <<BOOLOID>>,    BOOLOID,    TRUE),
      Proc(USER_COUNT,  "count",    2200,                 <<>>,           INT8OID,    TRUE),
      Proc(CORR3,       "corr",     PG_CATALOG_NAMESPACE,
           <<FLOAT8OID, FLOAT8OID, FLOAT8OID>>, FLOAT8OID, TRUE) }

\* the partial and final functions of the pgstrom schema, and a cast function
PgProcStrom ==
    { Proc(16401, "nrows",   16384, <<>>,          INT8OID,    FALSE),
      Proc(16402, "psum",    16384, <<INT8OID>>,   INT8OID,    FALSE),
      Proc(16403, "pmin",    16384, <<FLOAT8OID>>, BYTEAOID,   FALSE),
      Proc(16411, "sum",     16384, <<INT8OID>>,   INT8OID,    TRUE),
      Proc(16412, "min_num", 16384, <<BYTEAOID>>,  NUMERICOID, TRUE),
      Proc(1746,  "float8",  PG_CATALOG_NAMESPACE, <<NUMERICOID>>, FLOAT8OID, FALSE) }

PgProcGood == PgProcAggs \cup PgProcStrom

Without(procs, oid) == { p \in procs : p.oid # oid }

\* the contents pg_proc may have: consistent with the static catalog, or
\* diverged from it in one function
PgProcVersions ==
    [ good      |-> PgProcGood,
      \* pgstrom.nrows() returns int4
      partbad   |-> Without(PgProcGood, 16401)
                      \cup {Proc(16401, "nrows", 16384, <<>>, 23, FALSE)},
      \* pgstrom.sum(int8) is not an aggregate function
      finalbad  |-> Without(PgProcGood, 16411)
                      \cup {Proc(16411, "sum", 16384, <<INT8OID>>, INT8OID, FALSE)},
      \* pgstrom.min_num(bytea) was dropped
      nofinal   |-> Without(PgProcGood, 16412),
      \* count() was dropped
      dropped   |-> Without(PgProcGood, COUNT_STAR),
      \* pgstrom.psum(int8) was dropped and created again
      recreated |-> Without(PgProcGood, 16402)
                      \cup {Proc(16502, "psum", 16384, <<INT8OID>>, INT8OID, FALSE)} ]

VersionNames == DOMAIN PgProcVersions

(***************************************************************************)
(* Syscache lookups                                                        *)
(***************************************************************************)
\* SearchSysCache1(PROCOID, oid): the set of matching tuples (empty or one)
SearchProcOid(procs, oid) == { p \in procs : p.oid = oid }

\* GetSysCacheOid3(PROCNAMEARGSNSP, name, argtypes, namespace)
GetProcOidByName(procs, name, argtypes, nsp) ==
    LET m == { p \in procs : /\ p.proname = name
                              /\ p.proargtypes = argtypes
                              /\ p.pronamespace = nsp }
    IN  IF m = {} THEN InvalidOid ELSE (CHOOSE p \in m : TRUE).oid

\* GetSysCacheOid2(TYPENAMENSP, typname, pg_catalog)
GetTypeOidByName(tok) ==
    LET m == { t \in pg_type : t.typname = tok }
    IN  IF m = {} THEN InvalidOid ELSE (CHOOSE t \in m : TRUE).oid

get_type_name(type_oid) ==
    LET m == { t \in pg_type : t.oid = type_oid }
    IN  IF m = {} THEN "" ELSE (CHOOSE t \in m : TRUE).typname

get_namespace_oid(name) ==
    LET m == { n \in pg_namespace : n.nspname = name }
    IN  IF m = {} THEN InvalidOid ELSE (CHOOSE n \in m : TRUE).oid

(***************************************************************************)
(* C string helpers                                                        *)
(***************************************************************************)
\* position of the first c in s at or after i, 0 when there is none
strchr(s, c, i) ==
    LET m == { j \in i..Len(s) : SubSeq(s, j, j) = c }
    IN  IF m = {} THEN 0 ELSE CHOOSE j \in m : \A k \in m : j <= k

RECURSIVE strtok_r(_, _)
\* the non-empty tokens of s separated by delim
strtok_r(s, delim) ==
    IF s = "" THEN <<>>
    ELSE LET p == strchr(s, delim, 1)
         IN  IF p = 0 THEN <<s>>
             ELSE IF p = 1 THEN strtok_r(SubSeq(s, 2, Len(s)), delim)
             ELSE <<SubSeq(s, 1, p - 1)>> \o strtok_r(SubSeq(s, p + 1, Len(s)), delim)

(***************************************************************************)
(* __aggfunc_resolve_func_signature: "c:name(type,...)" or                 *)
(* "s:name(type,...)" to the identifier of the live function.              *)
(* Result: [error, fn_oid]; error = "" when the function was found.        *)
(***************************************************************************)
RECURSIVE ResolveArgTypes(_)
\* the type identifiers of the tokens, InvalidOid for an unknown type name
ResolveArgTypes(toks) ==
    IF toks = <<>> THEN <<>>
    ELSE <<GetTypeOidByName(Head(toks))>> \o ResolveArgTypes(Tail(toks))

__aggfunc_resolve_func_signature(procs, signature) ==
    LET prefix == SubSeq(signature, 1, 2)
        fn_namespace == IF prefix = "c:" THEN PG_CATALOG_NAMESPACE
                        ELSE get_namespace_oid("pgstrom")
        rest  == SubSeq(signature, 3, Len(signature))
        open  == strchr(rest, "(", 1)
        fn_name == SubSeq(rest, 1, open - 1)
        base  == SubSeq(rest, open + 1, Len(rest))
        close == strchr(base, ")", 1)
        toks  == strtok_r(SubSeq(base, 1, close - 1), ",")
        fn_argtypes == ResolveArgTypes(toks)
        fn_oid == GetProcOidByName(procs, fn_name, fn_argtypes, fn_namespace)
    IN  IF prefix # "c:" /\ prefix # "s:"
          THEN [error |-> "wrong function signature", fn_oid |-> InvalidOid]
        ELSE IF open = 0 \/ close = 0
          THEN [error |-> "wrong function signature", fn_oid |-> InvalidOid]
        ELSE IF \E i \in 1..Len(fn_argtypes) : fn_argtypes[i] = InvalidOid
          THEN [error |-> "cache lookup failed for type", fn_oid |-> InvalidOid]
        ELSE IF fn_oid = InvalidOid
          THEN [error |-> "Catalog corruption? not found", fn_oid |-> InvalidOid]
        ELSE [error |-> "", fn_oid |-> fn_oid]

(***************************************************************************)
(* aggfunc_catalog_entry and the hash table aggfunc_catalog_htable         *)
(***************************************************************************)
\* the entry hash_search(HASH_ENTER) hands out: only the key is set
NewEntry(aggfn_oid) ==
    [aggfn_oid            |-> aggfn_oid,
     final_func_oid       |-> InvalidOid,
     partial_func_oid     |-> InvalidOid,
     partial_func_rettype |-> InvalidOid,
     partial_func_nargs   |-> 0,
     partial_func_action  |-> "",
     numeric_aware        |-> FALSE,
     is_valid_entry       |-> FALSE]

\* aggfunc_catalog_htable = NULL
NullHtable == [alive |-> FALSE, entries |-> {}]

\* hash_create()
hash_create == [alive |-> TRUE, entries |-> {}]

\* a search that does not see the entries cached as not resolvable
hash_find_ValidOnly(h, aggfn_oid) ==
    { e \in h.entries : e.aggfn_oid = aggfn_oid /\ e.is_valid_entry }

hash_find(h, aggfn_oid) == { e \in h.entries : e.aggfn_oid = aggfn_oid }

\* an error handler that leaves the entry in the table
hash_remove_Nothing(h, aggfn_oid) == h

hash_remove(h, aggfn_oid) ==
    [h EXCEPT !.entries = { e \in h.entries : e.aggfn_oid # aggfn_oid }]

hash_store(h, entry) ==
    [h EXCEPT !.entries =
        { e \in h.entries : e.aggfn_oid # entry.aggfn_oid } \cup {entry}]

\* a callback that discards only the entries cached as resolvable
aggfunc_catalog_htable_invalidator_ValidOnly(h) ==
    [h EXCEPT !.entries = { e \in @ : ~e.is_valid_entry }]

aggfunc_catalog_htable_invalidator(h) == NullHtable

get_func_rettype(procs, func_oid) ==
    LET m == SearchProcOid(procs, func_oid)
    IN  IF m = {} THEN InvalidOid ELSE (CHOOSE q \in m : TRUE).prorettype

get_func_nargs(procs, func_oid) ==
    LET m == SearchProcOid(procs, func_oid)
    IN  IF m = {} THEN 0 - 1 ELSE (CHOOSE q \in m : TRUE).pronargs

\* a switch whose KAGG_ACTION__COVAR case does not set func_nargs = 2
PartialFuncExpect_CovarOneArg(partfn_action) ==
    CASE partfn_action = "KAGG_ACTION__NROWS_ANY"
           -> [ok |-> TRUE, func_nargs |-> 0, type_oid |-> INT8OID]
      [] partfn_action \in {"KAGG_ACTION__NROWS_COND", "KAGG_ACTION__PSUM_INT"}
           -> [ok |-> TRUE, func_nargs |-> 1, type_oid |-> INT8OID]
      [] partfn_action = "KAGG_ACTION__PSUM_FP"
           -> [ok |-> TRUE, func_nargs |-> 1, type_oid |-> FLOAT8OID]
      [] partfn_action \in {"KAGG_ACTION__PMIN_INT", "KAGG_ACTION__PMIN_FP",
                            "KAGG_ACTION__PMAX_INT", "KAGG_ACTION__PMAX_FP",
                            "KAGG_ACTION__PAVG_INT", "KAGG_ACTION__PAVG_FP",
                            "KAGG_ACTION__STDDEV", "KAGG_ACTION__COVAR"}
           -> [ok |-> TRUE, func_nargs |-> 1, type_oid |-> BYTEAOID]
      [] OTHER
           -> [ok |-> FALSE, func_nargs |-> 1, type_oid |-> InvalidOid]

\* the switch of __aggfunc_resolve_partial_func: the argument count and the
\* return type an action fixes; ok = FALSE for an unknown action
PartialFuncExpect(partfn_action) ==
    CASE partfn_action = "KAGG_ACTION__NROWS_ANY"
           -> [ok |-> TRUE, func_nargs |-> 0, type_oid |-> INT8OID]
      [] partfn_action \in {"KAGG_ACTION__NROWS_COND", "KAGG_ACTION__PSUM_INT"}
           -> [ok |-> TRUE, func_nargs |-> 1, type_oid |-> INT8OID]
      [] partfn_action = "KAGG_ACTION__PSUM_FP"
           -> [ok |-> TRUE, func_nargs |-> 1, type_oid |-> FLOAT8OID]
      [] partfn_action \in {"KAGG_ACTION__PMIN_INT", "KAGG_ACTION__PMIN_FP",
                            "KAGG_ACTION__PMAX_INT", "KAGG_ACTION__PMAX_FP",
                            "KAGG_ACTION__PAVG_INT", "KAGG_ACTION__PAVG_FP",
                            "KAGG_ACTION__STDDEV"}
           -> [ok |-> TRUE, func_nargs |-> 1, type_oid |-> BYTEAOID]
      [] partfn_action = "KAGG_ACTION__COVAR"
           -> [ok |-> TRUE, func_nargs |-> 2, type_oid |-> BYTEAOID]
      [] OTHER
           -> [ok |-> FALSE, func_nargs |-> 1, type_oid |-> InvalidOid]

(***************************************************************************)
(* The live catalog the static catalog declares: each aggregate function   *)
(* of aggfunc_catalog_array in pg_catalog, and each partial and final      *)
(* function of the name, schema and argument types of its signature.  A    *)
(* partial function returns the type its action fixes; the aggregate       *)
(* functions and their final functions return DeclaredRetType.             *)
(***************************************************************************)
\* the function name of "name(type,...)"
SignatureName(sig) == SubSeq(sig, 1, strchr(sig, "(", 1) - 1)

\* the argument types of "name(type,...)"
SignatureTypes(sig) ==
    ResolveArgTypes(strtok_r(SubSeq(sig, strchr(sig, "(", 1) + 1,
                                    strchr(sig, ")", 1) - 1), ","))

\* a signature without its "c:" or "s:"
Unprefixed(sig) == SubSeq(sig, 3, Len(sig))

SignatureNamespace(sig) ==
    IF SubSeq(sig, 1, 2) = "c:" THEN PG_CATALOG_NAMESPACE
    ELSE get_namespace_oid("pgstrom")

CatalogIndexes == 1..Len(aggfunc_catalog_array)

\* the first element of aggfunc_catalog_array with the partial function of
\* element i, and with its final function
FirstWithPartfn(i) ==
    CHOOSE j \in CatalogIndexes :
        /\ aggfunc_catalog_array[j].partfn_signature =
              aggfunc_catalog_array[i].partfn_signature
        /\ \A k \in 1..(j - 1) :
              aggfunc_catalog_array[k].partfn_signature #
                  aggfunc_catalog_array[i].partfn_signature

FirstWithFinalfn(i) ==
    CHOOSE j \in CatalogIndexes :
        /\ aggfunc_catalog_array[j].finalfn_signature =
              aggfunc_catalog_array[i].finalfn_signature
        /\ \A k \in 1..(j - 1) :
              aggfunc_catalog_array[k].finalfn_signature #
                  aggfunc_catalog_array[i].finalfn_signature

DeclaredRetType == NUMERICOID

\* the identifier of the aggregate function of element i
DeclaredAggOid(i) == 10000 + i

DeclaredAggs ==
    { Proc(DeclaredAggOid(i),
           SignatureName(aggfunc_catalog_array[i].aggfn_signature),
           PG_CATALOG_NAMESPACE,
           SignatureTypes(aggfunc_catalog_array[i].aggfn_signature),
           DeclaredRetType, TRUE) : i \in CatalogIndexes }

DeclaredPartfns ==
    { Proc(20000 + i,
           SignatureName(Unprefixed(aggfunc_catalog_array[i].partfn_signature)),
           SignatureNamespace(aggfunc_catalog_array[i].partfn_signature),
           SignatureTypes(Unprefixed(aggfunc_catalog_array[i].partfn_signature)),
           PartialFuncExpect(aggfunc_catalog_array[i].partfn_action).type_oid,
           FALSE) :
        i \in { FirstWithPartfn(k) : k \in CatalogIndexes } }

\* a final function in pg_catalog that is an aggregate function of the
\* static catalog is that function
DeclaredFinalfns ==
    { Proc(30000 + i,
           SignatureName(Unprefixed(aggfunc_catalog_array[i].finalfn_signature)),
           SignatureNamespace(aggfunc_catalog_array[i].finalfn_signature),
           SignatureTypes(Unprefixed(aggfunc_catalog_array[i].finalfn_signature)),
           DeclaredRetType, TRUE) :
        i \in { j \in { FirstWithFinalfn(k) : k \in CatalogIndexes } :
                  ~ /\ SubSeq(aggfunc_catalog_array[j].finalfn_signature, 1, 2)
                          = "c:"
                    /\ \E a \in CatalogIndexes :
                          aggfunc_catalog_array[a].aggfn_signature =
                              Unprefixed(
                                aggfunc_catalog_array[j].finalfn_signature) } }

\* the final function the comment above the corr element names,
\* PGSTROM.CORR over the packed partial result
DeclaredCorrFinal ==
    Proc(40000, "corr", get_namespace_oid("pgstrom"), << BYTEAOID >>,
         DeclaredRetType, TRUE)

DeclaredProcs ==
    DeclaredAggs \cup DeclaredPartfns \cup DeclaredFinalfns
        \cup { DeclaredCorrFinal }

\* __aggfunc_resolve_partial_func from the switch on, r being what
\* __aggfunc_resolve_func_signature returned.  Result: [error, entry]
CheckPartialFunc(procs, entry, partfn_action, r) ==
    LET x == PartialFuncExpect(partfn_action)
        filled == [entry EXCEPT
                     !.partial_func_oid     = r.fn_oid,
                     !.partial_func_rettype = get_func_rettype(procs, r.fn_oid),
                     !.partial_func_nargs   = get_func_nargs(procs, r.fn_oid),
                     !.partial_func_action  = partfn_action]
    IN  IF r.error # "" THEN [error |-> r.error, entry |-> entry]
        ELSE IF ~x.ok
          THEN [error |-> "Catalog corruption? unknown action", entry |-> entry]
        ELSE IF \/ filled.partial_func_rettype # x.type_oid
                \/ filled.partial_func_nargs # x.func_nargs
          THEN [error |-> "Catalog curruption? partial function mismatch",
                entry |-> filled]
        ELSE [error |-> "", entry |-> filled]

\* Result: [error, entry]
__aggfunc_resolve_partial_func(procs, entry, partfn_signature, partfn_action) ==
    CheckPartialFunc(procs, entry, partfn_action,
                     __aggfunc_resolve_func_signature(procs, partfn_signature))

\* __aggfunc_resolve_final_func from its first test on, r being what
\* __aggfunc_resolve_func_signature returned.  Result: [error, entry]
CheckFinalFunc(procs, entry, agg_rettype, r) ==
    LET m == SearchProcOid(procs, r.fn_oid)
        proc == CHOOSE q \in m : TRUE
    IN  IF r.error # "" THEN [error |-> r.error, entry |-> entry]
        ELSE IF \/ ~(\E q \in m : q.isagg)
                \/ get_func_rettype(procs, r.fn_oid) # agg_rettype
          THEN [error |-> "Catalog corruption? final function mismatch",
                entry |-> entry]
        ELSE IF m = {}
          THEN [error |-> "cache lookup failed for function", entry |-> entry]
        ELSE IF \/ proc.pronargs # 1
                \/ Len(proc.proargtypes) # 1
                \/ proc.proargtypes[1] # entry.partial_func_rettype
          THEN [error |-> "Catalog corruption? final function mismatch",
                entry |-> entry]
        ELSE [error |-> "", entry |-> [entry EXCEPT !.final_func_oid = r.fn_oid]]

\* Result: [error, entry]
__aggfunc_resolve_final_func(procs, entry, finalfn_signature, agg_rettype) ==
    CheckFinalFunc(procs, entry, agg_rettype,
                   __aggfunc_resolve_func_signature(procs, finalfn_signature))

RECURSIVE SignatureArgs(_, _)
\* the loop that prints the argument type names, separated by commas
SignatureArgs(argtypes, j) ==
    IF j > Len(argtypes) THEN ""
    ELSE (IF j > 1 THEN "," ELSE "") \o get_type_name(argtypes[j])
         \o SignatureArgs(argtypes, j + 1)

\* the signature string buf that is compared with aggfn_signature
SignatureOf(proc) ==
    proc.proname \o "(" \o SignatureArgs(proc.proargtypes, 1) \o ")"

\* index of the first element of aggfunc_catalog_array whose signature is
\* buf, 0 when the scan reaches the sentinel
ScanCatalog(buf) ==
    LET m == { i \in 1..Len(aggfunc_catalog_array) :
                 aggfunc_catalog_array[i].aggfn_signature = buf }
    IN  IF m = {} THEN 0 ELSE CHOOSE i \in m : \A k \in m : i <= k

\* The end of the loop body for the matching element cat, pr and fr being
\* what the resolution of the partial and of the final function returned.
\* Result: [error, entry, scanned]
CompleteEntry(cat, pr, fr) ==
    IF pr.error # ""
      THEN [error |-> pr.error, entry |-> pr.entry, scanned |-> TRUE]
    ELSE IF fr.error # ""
      THEN [error |-> fr.error, entry |-> fr.entry, scanned |-> TRUE]
    ELSE [error |-> "",
          entry |-> [fr.entry EXCEPT !.numeric_aware = cat.numeric_aware,
                                     !.is_valid_entry = TRUE],
          scanned |-> TRUE]

\* The element cat of aggfunc_catalog_array matches: resolve the partial and
\* the final function and complete the entry.
\* Result: [error, entry, scanned]
ResolveCatalogEntry(procs, entry, agg_rettype, cat) ==
    LET pr == __aggfunc_resolve_partial_func(procs, entry,
                                             cat.partfn_signature,
                                             cat.partfn_action)
    IN  CompleteEntry(cat, pr,
            __aggfunc_resolve_final_func(procs, pr.entry,
                                         cat.finalfn_signature, agg_rettype))

\* The body of PG_TRY() for a new entry.
\* Result: [error, entry, scanned]
PopulateEntry(procs, entry, aggfn_oid) ==
    LET m    == SearchProcOid(procs, aggfn_oid)
        proc == CHOOSE q \in m : TRUE
        i    == ScanCatalog(SignatureOf(proc))
    IN  IF m = {}
          THEN [error |-> "cache lookup failed for function",
                entry |-> entry, scanned |-> FALSE]
        ELSE IF ~(proc.pronamespace = PG_CATALOG_NAMESPACE /\ proc.pronargs <= 2)
          THEN [error |-> "", entry |-> entry, scanned |-> FALSE]
        ELSE IF i = 0
          THEN [error |-> "", entry |-> entry, scanned |-> TRUE]
        ELSE ResolveCatalogEntry(procs, entry, proc.prorettype,
                                 aggfunc_catalog_array[i])

\* a return that does not test pgstrom_enable_numeric_aggfuncs
LookupReturn_NoToggle(entry, numeric_enabled) ==
    IF ~entry.is_valid_entry THEN "null" ELSE "entry"

\* what the caller gets for an entry of the table
LookupReturn(entry, numeric_enabled) ==
    IF ~entry.is_valid_entry THEN "null"
    ELSE IF entry.numeric_aware /\ ~numeric_enabled THEN "null"
    ELSE "entry"

\* aggfunc_catalog_lookup_by_oid after PG_TRY() for a new entry, pop being
\* what PopulateEntry returned: PG_CATCH() removes the entry and rethrows
PopulatedResult(h1, numeric_enabled, aggfn_oid, pop) ==
    IF pop.error # ""
      THEN [htable |-> hash_remove(hash_store(h1, pop.entry), aggfn_oid),
            status |-> "error", entry |-> NewEntry(aggfn_oid),
            error |-> pop.error,
            queried |-> TRUE, scanned |-> pop.scanned]
      ELSE [htable |-> hash_store(h1, pop.entry),
            status |-> LookupReturn(pop.entry, numeric_enabled),
            entry |-> pop.entry, error |-> "",
            queried |-> TRUE, scanned |-> pop.scanned]

\* aggfunc_catalog_lookup_by_oid.
\* Result: [htable, status, entry, error, queried, scanned] where status is
\* "entry" (entry is returned), "null" (NULL is returned) or "error" (an
\* error leaves the function); queried says that the live function catalog
\* was consulted and scanned that aggfunc_catalog_array was scanned.
aggfunc_catalog_lookup_by_oid(h, procs, numeric_enabled, aggfn_oid) ==
    LET h1    == IF ~h.alive THEN hash_create ELSE h
        found == hash_find(h1, aggfn_oid)
        old   == CHOOSE e \in found : TRUE
    IN  IF found # {}
          THEN [htable |-> h1, status |-> LookupReturn(old, numeric_enabled),
                entry |-> old, error |-> "",
                queried |-> FALSE, scanned |-> FALSE]
        ELSE PopulatedResult(h1, numeric_enabled, aggfn_oid,
                 PopulateEntry(procs, NewEntry(aggfn_oid), aggfn_oid))

(***************************************************************************)
(* Expression nodes                                                        *)
(***************************************************************************)
NullNode == [tag |-> "NULL"]

Var(name, type) == [tag |-> "Var", varname |-> name, vartype |-> type]

Const(type) == [tag |-> "Const", consttype |-> type]

OpExpr(args) == [tag |-> "OpExpr", opresulttype |-> BOOLOID, args |-> args]

FuncExpr(funcid, rettype, args) ==
    [tag |-> "FuncExpr", funcid |-> funcid, funcresulttype |-> rettype,
     args |-> args]

RelabelType(arg, type) ==
    [tag |-> "RelabelType", arg |-> arg, resulttype |-> type]

List(elems) == [tag |-> "List", elems |-> elems]

AGGKIND_NORMAL == "n"
AGGKIND_ORDERED_SET == "o"
AGGKIND_HYPOTHETICAL == "h"

AGGKIND_IS_ORDERED_SET(kind) == kind # AGGKIND_NORMAL

\* aggorder / aggdistinct say whether the list is not NIL; aggfilter is an
\* expression or NullNode
Aggref(aggfnoid, aggtype, args, aggorder, aggdistinct, aggkind) ==
    [tag |-> "Aggref", aggfnoid |-> aggfnoid, aggtype |-> aggtype,
     args |-> args, aggorder |-> aggorder, aggdistinct |-> aggdistinct,
     aggkind |-> aggkind, aggvariadic |-> FALSE, aggfilter |-> NullNode]

exprType(node) ==
    CASE node.tag = "Var"         -> node.vartype
      [] node.tag = "Const"       -> node.consttype
      [] node.tag = "OpExpr"      -> node.opresulttype
      [] node.tag = "FuncExpr"    -> node.funcresulttype
      [] node.tag = "RelabelType" -> node.resulttype
      [] node.tag = "Aggref"      -> node.aggtype
      [] OTHER                    -> InvalidOid

(***************************************************************************)
(* What the device supports: pgstrom_devtype_lookup,                       *)
(* devtype_lookup_equal_func and pgstrom_xpu_expression                    *)
(***************************************************************************)
TEXTOID == 25

\* device types; text has a hash function but no equality function under
\* the collation of the grouping key used here
devtype_info ==
    { [type_oid |-> INT8OID,    type_hashfunc |-> TRUE, type_eqfunc |-> TRUE],
      [type_oid |-> FLOAT8OID,  type_hashfunc |-> TRUE, type_eqfunc |-> TRUE],
      [type_oid |-> NUMERICOID, type_hashfunc |-> TRUE, type_eqfunc |-> TRUE],
      [type_oid |-> BOOLOID,    type_hashfunc |-> TRUE, type_eqfunc |-> TRUE],
      [type_oid |-> TEXTOID,    type_hashfunc |-> TRUE, type_eqfunc |-> FALSE] }

pgstrom_devtype_lookup(type_oid) == { d \in devtype_info : d.type_oid = type_oid }

\* functions with a device implementation
DeviceFuncs == {1746}

RECURSIVE pgstrom_xpu_expression(_)
pgstrom_xpu_expression(expr) ==
    CASE expr.tag = "Var"   -> pgstrom_devtype_lookup(expr.vartype) # {}
      [] expr.tag = "Const" -> pgstrom_devtype_lookup(expr.consttype) # {}
      [] expr.tag = "RelabelType" -> pgstrom_xpu_expression(expr.arg)
      [] expr.tag = "FuncExpr" ->
            /\ expr.funcid \in DeviceFuncs
            /\ \A i \in 1..Len(expr.args) : pgstrom_xpu_expression(expr.args[i])
      [] OTHER -> FALSE

\* pg_cast
COERCION_METHOD_BINARY == "b"
COERCION_METHOD_FUNCTION == "f"

pg_cast ==
    { [castsource |-> NUMERICOID, casttarget |-> FLOAT8OID,
       castfunc |-> 1746, castmethod |-> COERCION_METHOD_FUNCTION],
      [castsource |-> 23, casttarget |-> INT8OID,
       castfunc |-> 481, castmethod |-> COERCION_METHOD_FUNCTION],
      [castsource |-> TEXTOID, casttarget |-> 1043,
       castfunc |-> InvalidOid, castmethod |-> COERCION_METHOD_BINARY] }

\* make_expr_typecast.  Result: [error, expr]
make_expr_typecast(expr, target_type) ==
    LET source_type == exprType(expr)
        m == { c \in pg_cast : /\ c.castsource = source_type
                               /\ c.casttarget = target_type }
        cast == CHOOSE c \in m : TRUE
    IN  IF target_type = source_type \/ target_type = ANYOID
          THEN [error |-> "", expr |-> expr]
        ELSE IF m = {}
          THEN [error |-> "cache lookup failed for cast", expr |-> expr]
        ELSE IF cast.castmethod = COERCION_METHOD_BINARY
          THEN [error |-> "", expr |-> RelabelType(expr, target_type)]
        ELSE IF cast.castmethod = COERCION_METHOD_FUNCTION
          THEN [error |-> "",
                expr |-> FuncExpr(cast.castfunc, target_type, <<expr>>)]
        ELSE [error |-> "cast-method is not supported in the kernel mode",
              expr |-> expr]

(***************************************************************************)
(* xpugroupby_build_path_context, together with what the rewriting reads   *)
(* and writes outside of it: the resolver cache (htable), the error being  *)
(* raised (error, "" when none) and the log of the calls of                *)
(* make_alternative_aggref (agg_calls).                                    *)
(***************************************************************************)
\* a column of a PathTarget: the expression and its sortgroupref
Column(expr, sortgroupref) == [expr |-> expr, sortgroupref |-> sortgroupref]

RECURSIVE Exprs(_)
\* PathTarget.exprs
Exprs(target) ==
    IF target = <<>> THEN <<>> ELSE <<Head(target).expr>> \o Exprs(Tail(target))

list_member(list, node) == \E i \in 1..Len(list) : list[i] = node

\* pg_aggregate rows of the final functions
pg_aggregate ==
    { [aggfnoid |-> 16411,    aggtranstype |-> INT8OID,
       aggtransfn |-> 16421,  aggfinalfn |-> InvalidOid],
      [aggfnoid |-> 16412,    aggtranstype |-> BYTEAOID,
       aggtransfn |-> 16422,  aggfinalfn |-> 16432],
      [aggfnoid |-> SUM_INT8, aggtranstype |-> 2281,
       aggtransfn |-> 2746,   aggfinalfn |-> 3388] }

\* SearchSysCache1(AGGFNOID, func_oid)
SearchAggFnOid(procs, func_oid) ==
    { a \in pg_aggregate :
        /\ a.aggfnoid = func_oid
        /\ \E q \in SearchProcOid(procs, func_oid) : q.isagg }

EmptyContext(input_path, num_groups, task_kind) ==
    [device_executable  |-> TRUE,
     num_groups         |-> num_groups,
     task_kind          |-> task_kind,
     input_path         |-> input_path,
     target_partial     |-> <<>>,
     target_final       |-> <<>>,
     groupby_keys       |-> <<>>,
     groupby_actions    |-> <<>>,
     havingQual         |-> NullNode,
     final_clause_costs |-> [transCost |-> 0, finalCost |-> 0]]

\* syscache_held: the catalog tuples make_alternative_aggref holds a
\* reference to, each as <<cache, key>>
World(con, htable) ==
    [con |-> con, htable |-> htable, error |-> "", agg_calls |-> <<>>,
     syscache_held |-> <<>>]

\* SearchSysCache1 that found a tuple: the caller holds one more reference
SearchSysCache1(w, cacheId, key) ==
    [w EXCEPT !.syscache_held = Append(@, <<cacheId, key>>)]

\* ReleaseSysCache(htup): the reference taken last on this tuple is given
\* back
ReleaseSysCache(w, cacheId, key) ==
    LET held == w.syscache_held
        at   == { i \in 1..Len(held) : held[i] = <<cacheId, key>> }
        last == CHOOSE i \in at : \A k \in at : k <= i
    IN  IF at = {} THEN w
        ELSE [w EXCEPT !.syscache_held =
                 SubSeq(held, 1, last - 1) \o SubSeq(held, last + 1, Len(held))]

Raise(w, error) == [w EXCEPT !.error = error]

\* one call of make_alternative_aggref, as logged
AggCall(aggref, status, looked_up, before, after, actions, held) ==
    [aggref |-> aggref, status |-> status, looked_up |-> looked_up,
     partial_before |-> before, partial_after |-> after,
     actions_after |-> actions,
     held_before |-> held[1], held_after |-> held[2]]

Logged(w0, w, aggref, status, looked_up) ==
    [w EXCEPT !.agg_calls = Append(@,
        AggCall(aggref, status, looked_up,
                Len(w0.con.target_partial), Len(w.con.target_partial),
                Len(w.con.groupby_actions),
                << Len(w0.syscache_held), Len(w.syscache_held) >>))]

RECURSIVE PartfnArgs(_, _, _)
\* the loop over aggref->args: cast each argument to the declared type of
\* the partial function and require it to be device executable.
\* Result: [status, error, args]; status is "ok", "notexec" or "error"
PartfnArgs(args, argtypes, j) ==
    IF j > Len(args) THEN [status |-> "ok", error |-> "", args |-> <<>>]
    ELSE LET expr     == args[j]
             type_oid == exprType(expr)
             dest_oid == argtypes[j]
             cast     == IF type_oid # dest_oid
                           THEN make_expr_typecast(expr, dest_oid)
                           ELSE [error |-> "", expr |-> expr]
             rest     == PartfnArgs(args, argtypes, j + 1)
         IN  IF cast.error # ""
               THEN [status |-> "error", error |-> cast.error, args |-> <<>>]
             ELSE IF ~pgstrom_xpu_expression(cast.expr)
               THEN [status |-> "notexec", error |-> "", args |-> <<>>]
             ELSE IF rest.status # "ok" THEN rest
             ELSE [rest EXCEPT !.args = <<cast.expr>> \o @]

\* the final aggregate call built over the partial function call
AlternativeAggref(aggref, func_oid, partfn) ==
    [tag |-> "Aggref", aggfnoid |-> func_oid, aggtype |-> aggref.aggtype,
     args |-> <<partfn>>, aggorder |-> FALSE, aggdistinct |-> FALSE,
     aggkind |-> AGGKIND_NORMAL, aggvariadic |-> FALSE,
     aggfilter |-> NullNode]

\* the tests at the head of make_alternative_aggref without the DISTINCT one
UnsupportedAggref_NoDistinct(aggref) ==
    \/ aggref.aggorder
    \/ AGGKIND_IS_ORDERED_SET(aggref.aggkind)

\* the two tests at the head of make_alternative_aggref: ORDER BY / DISTINCT,
\* then the ordered-set kinds
UnsupportedAggref(aggref) ==
    \/ aggref.aggorder \/ aggref.aggdistinct
    \/ AGGKIND_IS_ORDERED_SET(aggref.aggkind)

\* an append of the action that is not under the list_member test
add_partial_column_ActionAlways(w, partfn, action) ==
    IF ~list_member(Exprs(w.con.target_partial), partfn)
      THEN [w EXCEPT !.con.target_partial = Append(@, Column(partfn, 0)),
                     !.con.groupby_actions = Append(@, action)]
      ELSE [w EXCEPT !.con.groupby_actions = Append(@, action)]

\* "see add_new_column_to_pathtarget": the partial function call and its
\* action are appended unless an equal call is in target_partial already
add_partial_column(w, partfn, action) ==
    IF ~list_member(Exprs(w.con.target_partial), partfn)
      THEN [w EXCEPT !.con.target_partial = Append(@, Column(partfn, 0)),
                     !.con.groupby_actions = Append(@, action)]
      ELSE w

\* make_alternative_aggref from the catalog lookup on, look being what
\* aggfunc_catalog_lookup_by_oid returned.  Result: [w, node]
AlternativeFromCatalog(w, aggref, procs, look) ==
    LET w1    == [w EXCEPT !.htable = look.htable]
        aggfn_cat == look.entry
        pm    == SearchProcOid(procs, aggfn_cat.partial_func_oid)
        proc  == CHOOSE q \in pm : TRUE
        h1    == SearchSysCache1(w1, "PROCOID", aggfn_cat.partial_func_oid)
        pargs == PartfnArgs(aggref.args, proc.proargtypes, 1)
        partfn == FuncExpr(aggfn_cat.partial_func_oid,
                           aggfn_cat.partial_func_rettype, pargs.args)
        w2    == add_partial_column(
                     ReleaseSysCache(h1, "PROCOID",
                                     aggfn_cat.partial_func_oid),
                     partfn, aggfn_cat.partial_func_action)
        am    == SearchAggFnOid(procs, aggfn_cat.final_func_oid)
        agg   == CHOOSE a \in am : TRUE
        h2    == SearchSysCache1(w2, "AGGFNOID", aggfn_cat.final_func_oid)
        w3    == ReleaseSysCache(
                   [h2 EXCEPT
                     !.con.final_clause_costs.transCost =
                         IF agg.aggtransfn # InvalidOid THEN @ + 1 ELSE @,
                     !.con.final_clause_costs.finalCost =
                         IF agg.aggfinalfn # InvalidOid THEN @ + 1 ELSE @],
                   "AGGFNOID", aggfn_cat.final_func_oid)
    IN  IF look.status = "error"
          THEN [w |-> Logged(w, Raise(w1, look.error), aggref, "error", TRUE),
                node |-> NullNode]
        ELSE IF look.status = "null"
          THEN [w |-> Logged(w, w1, aggref, "null", TRUE), node |-> NullNode]
        ELSE IF pm = {}
          THEN [w |-> Logged(w, Raise(w1, "cache lookup failed for function"),
                             aggref, "error", TRUE),
                node |-> NullNode]
        ELSE IF pargs.status = "error"
          THEN [w |-> Logged(w, Raise(h1, pargs.error), aggref, "error", TRUE),
                node |-> NullNode]
        ELSE IF pargs.status = "notexec"
          THEN [w |-> Logged(w, h1, aggref, "null", TRUE), node |-> NullNode]
        ELSE IF am = {}
          THEN [w |-> Logged(w, Raise(w2, "cache lookup failed for pg_aggregate"),
                             aggref, "error", TRUE),
                node |-> NullNode]
        ELSE [w |-> Logged(w, w3, aggref, "node", TRUE),
              node |-> AlternativeAggref(aggref, aggfn_cat.final_func_oid, partfn)]

\* make_alternative_aggref.  Result: [w, node]; node is NullNode when the
\* function returns NULL or an error is raised (w.error # "")
make_alternative_aggref(w, aggref, procs, numeric_enabled) ==
    IF UnsupportedAggref(aggref)
      THEN [w |-> Logged(w, w, aggref, "null", FALSE), node |-> NullNode]
      ELSE AlternativeFromCatalog(w, aggref, procs,
               aggfunc_catalog_lookup_by_oid(w.htable, procs, numeric_enabled,
                                             aggref.aggfnoid))

(***************************************************************************)
(* replace_expression_by_altfunc and expression_tree_mutator               *)
(***************************************************************************)
RECURSIVE replace_expression_by_altfunc(_, _, _, _)
RECURSIVE MutateList(_, _, _, _, _)

\* the mutator applied to the elements i.. of a list, in order.
\* Result: [w, nodes]
MutateList(w, nodes, i, procs, numeric_enabled) ==
    IF i > Len(nodes) THEN [w |-> w, nodes |-> <<>>]
    ELSE LET r    == replace_expression_by_altfunc(w, nodes[i], procs,
                                                   numeric_enabled)
             rest == MutateList(r.w, nodes, i + 1, procs, numeric_enabled)
         IN  IF r.w.error # "" THEN [w |-> r.w, nodes |-> <<>>]
             ELSE [w |-> rest.w, nodes |-> <<r.node>> \o rest.nodes]

\* expression_tree_mutator with replace_expression_by_altfunc as mutator:
\* a copy of the node over whatever the mutator returns for its children.
\* Result: [w, node]
expression_tree_mutator(w, node, procs, numeric_enabled) ==
    CASE node.tag \in {"OpExpr", "FuncExpr"} ->
            LET m == MutateList(w, node.args, 1, procs, numeric_enabled)
            IN  [w |-> m.w, node |-> [node EXCEPT !.args = m.nodes]]
      [] node.tag = "List" ->
            LET m == MutateList(w, node.elems, 1, procs, numeric_enabled)
            IN  [w |-> m.w, node |-> [node EXCEPT !.elems = m.nodes]]
      [] node.tag = "RelabelType" ->
            LET r == replace_expression_by_altfunc(w, node.arg, procs,
                                                   numeric_enabled)
            IN  [w |-> r.w, node |-> [node EXCEPT !.arg = r.node]]
      [] OTHER -> [w |-> w, node |-> node]

\* the Aggref branch of replace_expression_by_altfunc, r being what
\* make_alternative_aggref returned: con->device_executable is cleared when
\* there is no alternative.  Result: [w, node]
AggrefReplaced(r) ==
    IF r.w.error = "" /\ r.node = NullNode
      THEN [w |-> [r.w EXCEPT !.con.device_executable = FALSE],
            node |-> NullNode]
      ELSE r

\* Result: [w, node]
replace_expression_by_altfunc(w, node, procs, numeric_enabled) ==
    IF node = NullNode THEN [w |-> w, node |-> NullNode]
    ELSE IF node.tag = "Aggref"
      THEN AggrefReplaced(make_alternative_aggref(w, node, procs,
                                                  numeric_enabled))
    ELSE IF list_member(w.con.groupby_keys, node)
      THEN [w |-> w, node |-> node]
    ELSE IF node.tag = "Var"
      THEN [w |-> Raise(w, "Bug? referenced variable is grouping-key nor its dependent key"),
            node |-> NullNode]
    ELSE expression_tree_mutator(w, node, procs, numeric_enabled)

(***************************************************************************)
(* xpugroupby_build_path_target                                            *)
(***************************************************************************)
\* get_sortgroupref_clause_noerr(sortgroupref, groupClause) != NULL
get_sortgroupref_clause_noerr(sortgroupref, groupClause) ==
    \E i \in 1..Len(groupClause) : groupClause[i] = sortgroupref

\* the checks made on a grouping key: hash function, equality function and
\* device executability
GroupingKeySupported(expr) ==
    LET dtype == pgstrom_devtype_lookup(exprType(expr))
    IN  /\ dtype # {}
        /\ \A d \in dtype : d.type_hashfunc /\ d.type_eqfunc
        /\ pgstrom_xpu_expression(expr)

\* the Aggref branch of the loop body, alt being what
\* make_alternative_aggref returned.  Result: [w, refno, status]
UpperAggregate(refno, expr, alt) ==
    IF alt.w.error # ""
      THEN [w |-> alt.w, refno |-> refno, status |-> "error"]
    ELSE IF alt.node = NullNode
      THEN [w |-> alt.w, refno |-> refno, status |-> "false"]
    ELSE IF exprType(expr) # exprType(alt.node)
      THEN [w |-> Raise(alt.w, "Bug? XpuGroupBy catalog is not consistent"),
            refno |-> refno, status |-> "error"]
    ELSE [w |-> [alt.w EXCEPT
                   !.con.target_final = Append(@, Column(alt.node, 0))],
          refno |-> refno, status |-> "ok"]

\* the loop body for one column of target_upper.
\* Result: [w, refno, status]; status is "ok", "false" (the function
\* returns false) or "error"
UpperTargetColumn(w, refno, column, groupClause, procs, numeric_enabled) ==
    LET expr == column.expr
        sortgroupref == column.sortgroupref
    IN  IF /\ sortgroupref # 0
           /\ groupClause # <<>>
           /\ get_sortgroupref_clause_noerr(sortgroupref, groupClause)
          THEN IF ~GroupingKeySupported(expr)
                 THEN [w |-> w, refno |-> refno, status |-> "false"]
                 ELSE [w |-> [w EXCEPT
                                !.con.target_final =
                                    Append(@, Column(expr, sortgroupref)),
                                !.con.groupby_keys = Append(@, expr)],
                       refno |-> Append(refno, sortgroupref),
                       status |-> "ok"]
        ELSE IF expr.tag = "Aggref"
          THEN UpperAggregate(refno, expr,
                   make_alternative_aggref(w, expr, procs, numeric_enabled))
        ELSE [w |-> w, refno |-> refno, status |-> "false"]

RECURSIVE UpperTargetLoop(_, _, _, _, _, _, _)

\* after column i, step being what its loop body returned: the function
\* returns, or the loop goes on with the next column
UpperTargetRest(step, target_upper, i, groupClause, procs, numeric_enabled) ==
    IF step.status # "ok" THEN step
    ELSE UpperTargetLoop(step.w, step.refno, target_upper, i + 1, groupClause,
                         procs, numeric_enabled)

\* the loop over target_upper->exprs from column i on.
\* Result: [w, refno, status]
UpperTargetLoop(w, refno, target_upper, i, groupClause, procs, numeric_enabled) ==
    IF i > Len(target_upper) THEN [w |-> w, refno |-> refno, status |-> "ok"]
    ELSE UpperTargetRest(
             UpperTargetColumn(w, refno, target_upper[i], groupClause, procs,
                               numeric_enabled),
             target_upper, i, groupClause, procs, numeric_enabled)

KAGG_ACTION__VREF == "KAGG_ACTION__VREF"

RECURSIVE AttachGroupingKeys(_, _, _)
\* the forboth loop: the grouping keys go to the end of target_partial
AttachGroupingKeys(con, refno, i) ==
    IF i > Len(con.groupby_keys) THEN con
    ELSE AttachGroupingKeys(
           [con EXCEPT
              !.target_partial = Append(@, Column(con.groupby_keys[i], refno[i])),
              !.groupby_actions = Append(@, KAGG_ACTION__VREF)],
           refno, i + 1)

\* the end of xpugroupby_build_path_target, hv being what
\* replace_expression_by_altfunc returned for parse->havingQual.
\* Result: [w, ret]
HavingReplaced(hv) ==
    IF hv.w.error # "" THEN [w |-> hv.w, ret |-> "error"]
    ELSE IF hv.node = NullNode THEN [w |-> hv.w, ret |-> "false"]
    ELSE [w |-> [hv.w EXCEPT !.con.havingQual = hv.node], ret |-> "true"]

\* xpugroupby_build_path_target after the loop over target_upper, up being
\* what the loop returned.  Result: [w, ret]
AttachKeysAndHaving(parse, procs, numeric_enabled, up) ==
    LET wk == [up.w EXCEPT !.con = AttachGroupingKeys(@, up.refno, 1)]
    IN  IF up.status = "error" THEN [w |-> up.w, ret |-> "error"]
        ELSE IF up.status = "false" THEN [w |-> up.w, ret |-> "false"]
        ELSE IF parse.havingQual = NullNode THEN [w |-> wk, ret |-> "true"]
        ELSE HavingReplaced(
                 replace_expression_by_altfunc(wk, parse.havingQual, procs,
                                               numeric_enabled))

\* Result: [w, ret]; ret is "true", "false" or "error"
xpugroupby_build_path_target(w, parse, target_upper, procs, numeric_enabled) ==
    AttachKeysAndHaving(parse, procs, numeric_enabled,
        UpperTargetLoop(w, <<>>, target_upper, 1, parse.groupClause,
                        procs, numeric_enabled))

(***************************************************************************)
(* Paths                                                                   *)
(***************************************************************************)
NullPath == [pathtype |-> "NULL"]

\* a path buildXpuScanPath / custom_path_find_cheapest may return
\* Costs are integers that count halves of a cost unit, so that the factor
\* 0.5 + parallel_workers is exact; pp_info is the plan info
\* extract_input_path_params takes from the path.
InputPath(rows, parallel_aware, parallel_workers) ==
    [pathtype |-> "XpuScan", rows |-> rows,
     parallel_aware |-> parallel_aware, parallel_workers |-> parallel_workers,
     startup_cost |-> 0, total_cost |-> 0, pp_info |-> [final_cost |-> 0]]

\* the device classes of task_kind & DEVKIND__ANY
DeviceKinds ==
    { "DEVKIND__NVIDIA_GPU", "DEVKIND__NVIDIA_DPU", "DEVKIND__NONE" }

\* pg_strom.gpu_* and pg_strom.dpu_* cost parameters
DeviceCosts(operator_cost, tuple_cost, operator_ratio) ==
    [operator_cost |-> operator_cost, tuple_cost |-> tuple_cost,
     operator_ratio |-> operator_ratio]

\* "Parameters related to devices": those of the device class of task_kind
xpu_cost_parameters(task_kind, dev) ==
    IF task_kind = "DEVKIND__NVIDIA_GPU" THEN dev.gpu
    ELSE IF task_kind = "DEVKIND__NVIDIA_DPU" THEN dev.dpu
    ELSE NullNode

\* final_cost *= (0.5 + (double)input_path->parallel_workers)
ScaleByWorkers(final_cost, parallel_workers) ==
    IF parallel_workers > 0
      THEN (final_cost * (1 + 2 * parallel_workers)) \div 2
      ELSE final_cost

\* a grouping cost that is taken off the startup cost
PartialCosts_GroupingSubtracted(con, parse, target_cost, xpu) ==
    LET input_path   == con.input_path
        startup_cost == input_path.startup_cost
                        - xpu.operator_cost * Len(parse.groupClause)
                                            * input_path.rows
                        + (target_cost.per_tuple * input_path.rows
                           + target_cost.startup) * xpu.operator_ratio
        run_cost     == input_path.total_cost - input_path.startup_cost
                        - input_path.pp_info.final_cost
        final_cost   == ScaleByWorkers(xpu.tuple_cost * con.num_groups,
                                       input_path.parallel_workers)
    IN  [startup_cost |-> startup_cost, run_cost |-> run_cost,
         final_cost |-> final_cost,
         total_cost |-> startup_cost + run_cost + final_cost]

\* the cost estimation of prepend_partial_groupby_custompath
PartialCosts(con, parse, target_cost, xpu) ==
    LET input_path   == con.input_path
        startup_cost == input_path.startup_cost
                        + xpu.operator_cost * Len(parse.groupClause)
                                            * input_path.rows
                        + (target_cost.per_tuple * input_path.rows
                           + target_cost.startup) * xpu.operator_ratio
        run_cost     == input_path.total_cost - input_path.startup_cost
                        - input_path.pp_info.final_cost
        final_cost   == ScaleByWorkers(xpu.tuple_cost * con.num_groups,
                                       input_path.parallel_workers)
    IN  [startup_cost |-> startup_cost, run_cost |-> run_cost,
         final_cost |-> final_cost,
         total_cost |-> startup_cost + run_cost + final_cost]

\* prepend_partial_groupby_custompath, costs being those of PartialCosts;
\* an unexpected device class is elog(ERROR) and no path is returned
prepend_partial_groupby_custompath(con, costs) ==
    [pathtype         |-> "CustomScan",
     pathtarget       |-> con.target_partial,
     parallel_aware   |-> con.input_path.parallel_aware,
     parallel_workers |-> con.input_path.parallel_workers,
     rows             |-> con.num_groups,
     startup_cost     |-> costs.startup_cost,
     total_cost       |-> costs.total_cost,
     final_cost       |-> costs.final_cost,
     subpath          |-> con.input_path]

\* create_gather_path(root, group_rel, subpath, target, NULL, &rows)
create_gather_path(subpath, target, rows) ==
    [pathtype |-> "Gather", pathtarget |-> target, subpath |-> subpath,
     parallel_aware |-> FALSE, parallel_workers |-> 0, rows |-> rows]

\* create_agg_path
create_agg_path(subpath, target, aggstrategy, groupClause, qual, numGroups) ==
    [pathtype |-> "Agg", aggstrategy |-> aggstrategy,
     aggsplit |-> "AGGSPLIT_SIMPLE", subpath |-> subpath,
     pathtarget |-> target, groupClause |-> groupClause, qual |-> qual,
     numGroups |-> numGroups]

work_mem == 4096

\* a budget test that refuses a hash table of exactly work_mem * 1024 bytes
try_add_final_groupby_paths_StrictFit(pathlist, con, parse, part_path, hashTableSz) ==
    IF parse.groupClause = <<>>
      THEN Append(pathlist,
                  create_agg_path(part_path, con.target_final, "AGG_PLAIN",
                                  parse.groupClause, con.havingQual,
                                  con.num_groups))
    ELSE IF hashTableSz < work_mem * 1024
      THEN Append(pathlist,
                  create_agg_path(part_path, con.target_final, "AGG_HASHED",
                                  parse.groupClause, con.havingQual,
                                  con.num_groups))
    ELSE pathlist

\* try_add_final_groupby_paths: the path list of group_rel afterwards
try_add_final_groupby_paths(pathlist, con, parse, part_path, hashTableSz) ==
    IF parse.groupClause = <<>>
      THEN Append(pathlist,
                  create_agg_path(part_path, con.target_final, "AGG_PLAIN",
                                  parse.groupClause, con.havingQual,
                                  con.num_groups))
    ELSE IF hashTableSz <= work_mem * 1024
      THEN Append(pathlist,
                  create_agg_path(part_path, con.target_final, "AGG_HASHED",
                                  parse.groupClause, con.havingQual,
                                  con.num_groups))
    ELSE pathlist

\* The call of __xpupreagg_add_custompath in xpupreagg_add_custompath: the
\* values the parameters try_parallel (bool) and num_groups (double) of the
\* callee receive.  The caller passes num_groups in the position of
\* try_parallel and (try_parallel > 0) in the position of num_groups, and
\* the compiler converts each to the type of the parameter.
CallArguments(num_groups, try_parallel) ==
    [try_parallel |-> (num_groups # 0),
     num_groups   |-> IF try_parallel > 0 THEN 1 ELSE 0]

\* a parallel step that falls back to the serial partial path
ParallelWrap_Fallback(try_parallel, part_path, target_partial) ==
    IF try_parallel /\ part_path.parallel_aware /\ part_path.parallel_workers > 0
      THEN [proceed |-> TRUE,
            part_path |-> create_gather_path(part_path, target_partial,
                             part_path.rows * part_path.parallel_workers)]
      ELSE [proceed |-> TRUE, part_path |-> part_path]

\* The parallel step of __xpupreagg_add_custompath.
\* Result: [proceed, part_path]; proceed = FALSE when the function returns
ParallelWrap(try_parallel, part_path, target_partial) ==
    IF try_parallel
      THEN IF part_path.parallel_aware /\ part_path.parallel_workers > 0
             THEN [proceed |-> TRUE,
                   part_path |-> create_gather_path(part_path, target_partial,
                                    part_path.rows * part_path.parallel_workers)]
             ELSE [proceed |-> FALSE, part_path |-> part_path]
      ELSE [proceed |-> TRUE, part_path |-> part_path]

(***************************************************************************)
(* Bounds and the queries, catalogs and input paths that are explored      *)
(***************************************************************************)
MaxTlist == 2
MaxDepth == 1
MaxGroups == 2
MaxWorkers == 2
MaxRows == 2
MaxCost == 1
MaxBatch == 2

\* columns and expressions of the queries
KeyVar  == Var("k", INT8OID)
TextVar == Var("t", TEXTOID)
SortVar == Var("s", INT8OID)
XVar    == Var("x", INT8OID)
NVar    == Var("n", NUMERICOID)
BVar    == Var("b", BOOLOID)
\* a call of a function that has no device implementation
HostFunc == FuncExpr(16600, INT8OID, <<XVar>>)

CountStar    == Aggref(COUNT_STAR, INT8OID, <<>>, FALSE, FALSE, AGGKIND_NORMAL)
SumX         == Aggref(SUM_INT8, NUMERICOID, <<XVar>>, FALSE, FALSE, AGGKIND_NORMAL)
SumOrderBy   == Aggref(SUM_INT8, NUMERICOID, <<XVar>>, TRUE, FALSE, AGGKIND_NORMAL)
SumDistinct  == Aggref(SUM_INT8, NUMERICOID, <<XVar>>, FALSE, TRUE, AGGKIND_NORMAL)
OrderedSet   == Aggref(3972, INT8OID, <<XVar>>, FALSE, FALSE, AGGKIND_ORDERED_SET)
MinNumeric   == Aggref(MIN_NUMERIC, NUMERICOID, <<NVar>>, FALSE, FALSE, AGGKIND_NORMAL)
BoolAnd      == Aggref(BOOL_AND, BOOLOID, <<BVar>>, FALSE, FALSE, AGGKIND_NORMAL)
SumHostFunc  == Aggref(SUM_INT8, NUMERICOID, <<HostFunc>>, FALSE, FALSE, AGGKIND_NORMAL)
\* sum(x) with aggvariadic set, and sum(x) FILTER (WHERE b)
SumVariadic  == [SumX EXCEPT !.aggvariadic = TRUE]
SumFilter    == [SumX EXCEPT !.aggfilter = BVar]

\* sortgrouprefs 1 and 2 belong to GROUP BY, 9 to ORDER BY
KeyColumn  == Column(KeyVar, 1)
TextColumn == Column(TextVar, 2)
SortColumn == Column(SortVar, 9)

TargetItems ==
    { KeyColumn, TextColumn, SortColumn } \cup
    { Column(a, 0) : a \in { CountStar, SumX, SumOrderBy, SumDistinct,
                             OrderedSet, MinNumeric, BoolAnd, SumHostFunc } }

PathItems == { KeyColumn, Column(CountStar, 0), Column(SumOrderBy, 0) }

CallItems == { Column(SumX, 0), Column(SumVariadic, 0), Column(SumFilter, 0) }

Tlists(items) == UNION { [1..n -> items] : n \in 1..MaxTlist }

\* the GROUP BY clause of a query with this upper target list
GroupClauseOf(tlist) ==
    LET has(r) == \E i \in 1..Len(tlist) : tlist[i].sortgroupref = r
    IN  (IF has(1) THEN <<1>> ELSE <<>>) \o (IF has(2) THEN <<2>> ELSE <<>>)

RECURSIVE HavingExprs(_)
\* predicates of depth at most d over aggregate calls
HavingExprs(d) ==
    IF d = 0 THEN { SumX, SumDistinct }
    ELSE HavingExprs(d - 1) \cup
         { OpExpr(<<e, Const(INT8OID)>>) : e \in HavingExprs(d - 1) } \cup
         { OpExpr(<<KeyVar, Const(INT8OID)>>) }

RECURSIVE MentionsVar(_, _)
\* the expression refers to the variable outside of an aggregate call
MentionsVar(e, v) ==
    CASE e = v -> TRUE
      [] e.tag \in {"OpExpr", "FuncExpr"} ->
            \E i \in 1..Len(e.args) : MentionsVar(e.args[i], v)
      [] e.tag = "List" ->
            \E i \in 1..Len(e.elems) : MentionsVar(e.elems[i], v)
      [] OTHER -> FALSE

\* HAVING: none, the implicit-AND list the planner keeps, or a bare predicate
Havings ==
    { NullNode } \cup HavingExprs(MaxDepth) \cup
    { List(<<e>>) : e \in HavingExprs(MaxDepth) }

Query(tlist, having, groupingSets, hashable) ==
    [parse |-> [groupClause  |-> GroupClauseOf(tlist),
                havingQual   |-> having,
                groupingSets |-> groupingSets,
                hashable     |-> hashable],
     upper_target |-> tlist]

\* a variable of HAVING outside of an aggregate call is a grouping column
ValidQuery(q) ==
    MentionsVar(q.parse.havingQual, KeyVar)
        => \E i \in 1..Len(q.upper_target) : q.upper_target[i] = KeyColumn

SerialPath   == InputPath(4, FALSE, 0)
ParallelPath == InputPath(4, TRUE, MaxWorkers)

InputPaths ==
    { NullPath } \cup
    { InputPath(4, a, n) : a \in BOOLEAN, n \in {0, MaxWorkers} }

\* what the hook is called with and what the planner core answers: whether
\* pg_strom.enable_gpupreagg is on, the input paths of the two attempts, the
\* result of estimate_num_groups and of estimate_hashagg_tablesize, the
\* task kind, the cost parameters of the devices and the cost
\* set_pathtarget_cost_width gives the partial target list
Environment(enabled, paths, groups, hashTableSz) ==
    [enabled |-> enabled, input_paths |-> paths,
     est_num_groups |-> groups, hashTableSz |-> hashTableSz,
     task_kind |-> "DEVKIND__NVIDIA_GPU",
     dev |-> [gpu |-> DeviceCosts(1, 2, 1), dpu |-> DeviceCosts(1, 2, 1)],
     target_cost |-> [per_tuple |-> 0, startup |-> 0],
     batches |-> <<>>]

(***************************************************************************)
(* State                                                                   *)
(***************************************************************************)
VARIABLES
    aggfunc_catalog_htable,          \* the resolver cache
    pg_proc_version,                 \* which contents pg_proc has
    pgstrom_enable_numeric_aggfuncs, \* pg_strom.enable_numeric_aggfuncs
    lastCall,                        \* the last operation on the resolver; of
                                     \* an invalidation: the entries it
                                     \* discarded; of a lookup: whether it
                                     \* replaced such an entry by another
                                     \* and whether it repeats the lookup
                                     \* before it (again)
    pc,                              \* position of the planning attempt
    root,                            \* the query being planned
    env,                             \* what the planner is given
    try_parallel,                    \* loop variable of xpupreagg_add_custompath
    arg_try_parallel,                \* parameter of __xpupreagg_add_custompath
    con,                             \* xpugroupby_build_path_context
    agg_calls,                       \* calls of make_alternative_aggref
    build_ret,                       \* result of xpugroupby_build_path_target
    part_path,                       \* part_path of __xpupreagg_add_custompath
    pathlist,                        \* paths added to group_rel
    error,                           \* the error raised, "" when none
    output                           \* the rows of an execution of the query
                                     \* and of its split plan

cache_vars == <<aggfunc_catalog_htable, pg_proc_version,
                pgstrom_enable_numeric_aggfuncs, lastCall>>

plan_vars == <<pc, root, env, output, try_parallel, arg_try_parallel, con, agg_calls,
               build_ret, part_path, pathlist, error>>

vars == <<aggfunc_catalog_htable, pg_proc_version,
          pgstrom_enable_numeric_aggfuncs, lastCall,
          pc, root, env, output, try_parallel, arg_try_parallel, con, agg_calls,
          build_ret, part_path, pathlist, error>>

pg_proc ==
    IF pg_proc_version = "declared" THEN DeclaredProcs
    ELSE PgProcVersions[pg_proc_version]

NoCall ==
    [op |-> "none", oid |-> InvalidOid, status |-> "null",
     entry |-> NewEntry(InvalidOid), error |-> "",
     queried |-> FALSE, scanned |-> FALSE,
     discarded |-> {}, rederived |-> FALSE, again |-> FALSE,
     freed_access |-> {}]

\* nothing has been executed
NoOutput == [ran |-> FALSE, original |-> {}, partial |-> {}, split |-> {}]

\* the number of groups xpupreagg_add_custompath computes for the attempt
NumGroups == IF root.parse.groupClause # <<>> THEN env.est_num_groups ELSE 1

\* a path the core planner added to group_rel before the hook runs
CoreAggPath ==
    [pathtype |-> "Agg", aggstrategy |-> "AGG_SORTED", qual |-> NullNode]

InitPlanner(q, e, paths) ==
    /\ pc = "hook"
    /\ root = q
    /\ env = e
    /\ try_parallel = 0
    /\ arg_try_parallel = FALSE
    /\ con = EmptyContext(NullPath, 0, e.task_kind)
    /\ agg_calls = <<>>
    /\ build_ret = "none"
    /\ part_path = NullPath
    /\ pathlist = paths
    /\ error = ""
    /\ output = NoOutput

\* many queries, planned over a serial and a parallel input path
InitTargets ==
    /\ aggfunc_catalog_htable = NullHtable
    /\ pg_proc_version \in {"good", "partbad"}
    /\ pgstrom_enable_numeric_aggfuncs \in BOOLEAN
    /\ lastCall = NoCall
    /\ \E tlist \in Tlists(TargetItems), having \in Havings :
          /\ ValidQuery(Query(tlist, having, FALSE, TRUE))
          /\ InitPlanner(Query(tlist, having, FALSE, TRUE),
                         Environment(TRUE, <<SerialPath, ParallelPath>>,
                                     MaxGroups, work_mem * 1024),
                         <<>>)

\* few queries, planned over every combination of input paths
InitPaths ==
    /\ aggfunc_catalog_htable = NullHtable
    /\ pg_proc_version = "good"
    /\ pgstrom_enable_numeric_aggfuncs = TRUE
    /\ lastCall = NoCall
    /\ \E tlist \in Tlists(PathItems),
          having \in { NullNode, List(<<OpExpr(<<SumX, Const(INT8OID)>>)>>) },
          sets \in BOOLEAN, hashable \in BOOLEAN, enabled \in BOOLEAN,
          p0 \in InputPaths, p1 \in InputPaths,
          groups \in 1..MaxGroups,
          sz \in { work_mem * 1024, work_mem * 1024 + 1 } :
          InitPlanner(Query(tlist, having, sets, hashable),
                      Environment(enabled, <<p0, p1>>, groups, sz),
                      <<CoreAggPath>>)

\* aggregate calls with the fields the rewriting does not test
InitCalls ==
    /\ aggfunc_catalog_htable = NullHtable
    /\ pg_proc_version = "good"
    /\ pgstrom_enable_numeric_aggfuncs = TRUE
    /\ lastCall = NoCall
    /\ \E tlist \in Tlists(CallItems) :
          InitPlanner(Query(tlist, NullNode, FALSE, TRUE),
                      Environment(TRUE, <<SerialPath, ParallelPath>>,
                                  MaxGroups, work_mem * 1024),
                      <<>>)

Init == InitTargets \/ InitPaths \/ InitCalls

(***************************************************************************)
(* The planning attempt, step by step                                      *)
(***************************************************************************)
\* gpupreagg_add_custompath and the bailout of xpupreagg_add_custompath
HookEntry ==
    /\ pc = "hook"
    /\ pc' = IF ~env.enabled THEN "done"
             ELSE IF root.parse.groupingSets \/ ~root.parse.hashable THEN "done"
             ELSE "loop"
    /\ UNCHANGED <<cache_vars, root, env, output, try_parallel, arg_try_parallel, con,
                   agg_calls, build_ret, part_path, pathlist, error>>

\* the head of the for loop: pick the input path and call
\* __xpupreagg_add_custompath, which sets up the context
LoopIteration ==
    /\ pc = "loop"
    /\ LET input_path == env.input_paths[try_parallel + 1]
           args == CallArguments(NumGroups, try_parallel)
       IN  IF try_parallel >= 2
             THEN /\ pc' = "done"
                  /\ UNCHANGED <<try_parallel, arg_try_parallel, con,
                                 build_ret, part_path, agg_calls>>
           ELSE IF input_path = NullPath
             THEN /\ pc' = "loop"
                  /\ try_parallel' = try_parallel + 1
                  /\ UNCHANGED <<arg_try_parallel, con, build_ret, part_path,
                                 agg_calls>>
           ELSE /\ pc' = "build"
                /\ arg_try_parallel' = args.try_parallel
                /\ con' = EmptyContext(input_path, args.num_groups,
                                        env.task_kind)
                /\ build_ret' = "none"
                /\ part_path' = NullPath
                /\ agg_calls' = <<>>
                /\ UNCHANGED try_parallel
    /\ UNCHANGED <<cache_vars, root, env, output, pathlist, error>>

\* a caller that does not return when target building fails
AfterBuildTarget_NoReturn(ret) ==
    IF ret = "error" THEN "error" ELSE "partial"

\* where __xpupreagg_add_custompath continues after
\* xpugroupby_build_path_target: it returns when the result is false
AfterBuildTarget(ret) ==
    CASE ret = "error" -> "error"
      [] ret = "false" -> "loop"
      [] OTHER         -> "partial"

\* xpugroupby_build_path_target and the return that follows its failure
BuildPathTarget ==
    /\ pc = "build"
    /\ \E r \in { xpugroupby_build_path_target(
                        World(con, aggfunc_catalog_htable), root.parse,
                        root.upper_target, pg_proc,
                        pgstrom_enable_numeric_aggfuncs) } :
           /\ con' = r.w.con
           /\ aggfunc_catalog_htable' = r.w.htable
           /\ agg_calls' = r.w.agg_calls
           /\ build_ret' = r.ret
           /\ error' = r.w.error
           /\ pc' = AfterBuildTarget(r.ret)
           /\ try_parallel' = IF AfterBuildTarget(r.ret) = "loop"
                                THEN try_parallel + 1 ELSE try_parallel
    /\ UNCHANGED <<pg_proc_version, pgstrom_enable_numeric_aggfuncs, lastCall,
                   root, env, output, arg_try_parallel, part_path, pathlist>>

PrependPartial ==
    /\ pc = "partial"
    /\ \E xpu \in { xpu_cost_parameters(con.task_kind, env.dev) } :
          IF xpu = NullNode
            THEN /\ error' = "Bug? unexpected task_kind"
                 /\ pc' = "error"
                 /\ UNCHANGED part_path
            ELSE /\ part_path' = prepend_partial_groupby_custompath(con,
                                    PartialCosts(con, root.parse,
                                                 env.target_cost, xpu))
                 /\ pc' = "parallel"
                 /\ UNCHANGED error
    /\ UNCHANGED <<cache_vars, root, env, output, try_parallel, arg_try_parallel, con,
                   agg_calls, build_ret, pathlist>>

\* "prepend Gather if parallel-aware path"
GatherStep ==
    /\ pc = "parallel"
    /\ LET r == ParallelWrap(arg_try_parallel, part_path, con.target_partial)
       IN  /\ part_path' = r.part_path
           /\ pc' = IF r.proceed THEN "final" ELSE "loop"
           /\ try_parallel' = IF r.proceed THEN try_parallel
                              ELSE try_parallel + 1
    /\ UNCHANGED <<cache_vars, root, env, output, arg_try_parallel, con, agg_calls,
                   build_ret, pathlist, error>>

FinalStep ==
    /\ pc = "final"
    /\ pathlist' = try_add_final_groupby_paths(pathlist, con, root.parse,
                                               part_path, env.hashTableSz)
    /\ pc' = "loop"
    /\ try_parallel' = try_parallel + 1
    /\ UNCHANGED <<cache_vars, root, env, output, arg_try_parallel, con, agg_calls,
                   build_ret, part_path, error>>

Next ==
    \/ HookEntry
    \/ LoopIteration
    \/ BuildPathTarget
    \/ PrependPartial
    \/ GatherStep
    \/ FinalStep

Spec == Init /\ [][Next]_vars

(***************************************************************************)
(* The planner over input paths, device parameters and target costs of     *)
(* many values                                                             *)
(***************************************************************************)
InitCost ==
    /\ aggfunc_catalog_htable = NullHtable
    /\ pg_proc_version = "good"
    /\ pgstrom_enable_numeric_aggfuncs = TRUE
    /\ lastCall = NoCall
    /\ \E tlist \in { <<Column(CountStar, 0)>>,
                       <<KeyColumn, Column(CountStar, 0)>> },
          rows \in 0..MaxRows, startup \in {0, 1}, run \in {0, 3},
          final \in {0, 1}, groups \in 1..MaxGroups,
          task_kind \in DeviceKinds,
          operator_cost \in 0..MaxCost, tuple_cost \in {0, 2},
          operator_ratio \in {1, 2},
          per_tuple \in 0..MaxCost, target_startup \in {0, 1} :
          InitPlanner(
              Query(tlist, NullNode, FALSE, TRUE),
              [Environment(TRUE,
                           <<[InputPath(rows, FALSE, 0) EXCEPT
                                 !.startup_cost = startup,
                                 !.total_cost = startup + run,
                                 !.pp_info.final_cost = final],
                             [InputPath(rows, TRUE, MaxWorkers) EXCEPT
                                 !.startup_cost = startup,
                                 !.total_cost = startup + run,
                                 !.pp_info.final_cost = final]>>,
                           groups, work_mem * 1024)
                 EXCEPT !.task_kind = task_kind,
                        !.dev = [gpu |-> DeviceCosts(operator_cost, tuple_cost,
                                                     operator_ratio),
                                 dpu |-> DeviceCosts(operator_cost + 1,
                                                     tuple_cost + 2,
                                                     operator_ratio + 1)],
                        !.target_cost = [per_tuple |-> per_tuple,
                                         startup |-> target_startup]],
              <<>>)

SpecCost == InitCost /\ [][Next]_vars

(***************************************************************************)
(* The resolver on its own: lookups, invalidations, switches of            *)
(* pg_strom.enable_numeric_aggfuncs and changes of pg_proc                 *)
(***************************************************************************)
InitCache ==
    /\ aggfunc_catalog_htable = NullHtable
    /\ pg_proc_version = "good"
    /\ pgstrom_enable_numeric_aggfuncs = TRUE
    /\ lastCall = NoCall
    /\ InitPlanner(Query(<<Column(CountStar, 0)>>, NullNode, FALSE, TRUE),
                   Environment(FALSE, <<NullPath, NullPath>>, 1, 0), <<>>)

Lookup(aggfn_oid) ==
    /\ \E r \in { aggfunc_catalog_lookup_by_oid(aggfunc_catalog_htable, pg_proc,
                      pgstrom_enable_numeric_aggfuncs, aggfn_oid) } :
           /\ aggfunc_catalog_htable' = r.htable
           /\ lastCall' = [op |-> "lookup", oid |-> aggfn_oid,
                           status |-> r.status, entry |-> r.entry,
                           error |-> r.error, queried |-> r.queried,
                           scanned |-> r.scanned,
                           discarded |-> {},
                           again |-> (lastCall.op = "lookup" /\
                                      lastCall.oid = aggfn_oid),
                           freed_access |-> {},
                           rederived |->
                             \E e \in lastCall.discarded :
                                /\ e.aggfn_oid = aggfn_oid
                                /\ e # r.entry]
    /\ UNCHANGED <<pg_proc_version, pgstrom_enable_numeric_aggfuncs, plan_vars>>

\* the syscache callback registered for PROCOID
Invalidate ==
    /\ aggfunc_catalog_htable' =
           aggfunc_catalog_htable_invalidator(aggfunc_catalog_htable)
    /\ lastCall' = [NoCall EXCEPT
                       !.op = "invalidate",
                       !.discarded = aggfunc_catalog_htable.entries]
    /\ UNCHANGED <<pg_proc_version, pgstrom_enable_numeric_aggfuncs, plan_vars>>

\* SET pg_strom.enable_numeric_aggfuncs
SetNumericAggfuncs ==
    /\ pgstrom_enable_numeric_aggfuncs' = ~pgstrom_enable_numeric_aggfuncs
    /\ lastCall' = [NoCall EXCEPT !.op = "set"]
    /\ UNCHANGED <<aggfunc_catalog_htable, pg_proc_version, plan_vars>>

\* a change of pg_proc, by this or another session
AlterCatalog(v) ==
    /\ v # pg_proc_version
    /\ pg_proc_version' = v
    /\ lastCall' = [NoCall EXCEPT !.op = "alter"]
    /\ UNCHANGED <<aggfunc_catalog_htable, pgstrom_enable_numeric_aggfuncs,
                   plan_vars>>

NextCache ==
    \/ \E aggfn_oid \in AggFnOids : Lookup(aggfn_oid)
    \/ Invalidate
    \/ SetNumericAggfuncs
    \/ \E v \in VersionNames : AlterCatalog(v)

SpecCache == InitCache /\ [][NextCache]_vars

(***************************************************************************)
(* The resolver over the live catalog the static catalog declares: a       *)
(* session that looks up the aggregate functions of aggfunc_catalog_array  *)
(* one after the other                                                     *)
(***************************************************************************)
InitCatalog ==
    /\ aggfunc_catalog_htable = NullHtable
    /\ pg_proc_version = "declared"
    /\ pgstrom_enable_numeric_aggfuncs \in BOOLEAN
    /\ lastCall = NoCall
    /\ InitPlanner(Query(<<Column(CountStar, 0)>>, NullNode, FALSE, TRUE),
                   Environment(FALSE, <<NullPath, NullPath>>, 1, 0), <<>>)

LookupDeclared ==
    /\ lastCall.status # "error"
    /\ \E i \in CatalogIndexes :
          /\ i = Cardinality(aggfunc_catalog_htable.entries) + 1
          /\ Lookup(DeclaredAggOid(i))

SpecCatalog == InitCatalog /\ [][LookupDeclared]_vars

(***************************************************************************)
(* The resolver with the syscache callback running inside a lookup.  The   *)
(* callback is called when invalidation messages are accepted, which       *)
(* happens as a catalog is opened for a syscache lookup: here at the first *)
(* such lookup of the PG_TRY() block, SearchSysCache1(PROCOID).            *)
(***************************************************************************)
InitRace ==
    /\ aggfunc_catalog_htable = NullHtable
    /\ pg_proc_version \in VersionNames
    /\ pgstrom_enable_numeric_aggfuncs = TRUE
    /\ lastCall = NoCall
    /\ InitPlanner(Query(<<Column(CountStar, 0)>>, NullNode, FALSE, TRUE),
                   Environment(FALSE, <<NullPath, NullPath>>, 1, 0), <<>>)

\* aggfunc_catalog_lookup_by_oid up to PG_TRY(): a cached entry is returned,
\* a new one is entered with is_valid_entry = false and entry points to it
LookupEnter(aggfn_oid) ==
    /\ lastCall.op # "populating" /\ lastCall.status # "crash"
    /\ IF hash_find(aggfunc_catalog_htable, aggfn_oid) # {}
         THEN Lookup(aggfn_oid)
         ELSE /\ aggfunc_catalog_htable' =
                    hash_store(IF ~aggfunc_catalog_htable.alive
                                 THEN hash_create ELSE aggfunc_catalog_htable,
                               NewEntry(aggfn_oid))
              /\ lastCall' = [NoCall EXCEPT !.op = "populating",
                                            !.oid = aggfn_oid,
                                            !.entry = NewEntry(aggfn_oid)]
              /\ UNCHANGED <<pg_proc_version, pgstrom_enable_numeric_aggfuncs,
                             plan_vars>>

\* aggfunc_catalog_htable_invalidator called inside SearchSysCache1(PROCOID)
\* of the lookup: the table and the entry the lookup points to are freed
CallbackInLookup ==
    /\ lastCall.op = "populating"
    /\ lastCall.discarded = {}
    /\ aggfunc_catalog_htable' =
           aggfunc_catalog_htable_invalidator(aggfunc_catalog_htable)
    /\ lastCall' = [lastCall EXCEPT !.discarded = aggfunc_catalog_htable.entries]
    /\ UNCHANGED <<pg_proc_version, pgstrom_enable_numeric_aggfuncs, plan_vars>>

\* What the rest of the lookup does with the entry pointer and the table
\* after the callback: it writes the resolved fields to the entry, reads
\* entry->is_valid_entry and entry->numeric_aware when no error was raised,
\* and calls hash_search(aggfunc_catalog_htable, HASH_REMOVE) in PG_CATCH().
AccessesAfterCallback(aggfn_oid, pop) ==
    (IF pop.entry # NewEntry(aggfn_oid) THEN {"write"} ELSE {})
    \cup (IF pop.error = "" THEN {"read"} ELSE {"remove"})

\* The behaviour of these accesses is undefined: the read of freed memory
\* gives any value of is_valid_entry, hash_search(NULL) may end the backend.
DanglingOutcomes(pop) ==
    IF pop.error # "" THEN {"crash", "error"} ELSE {"entry", "null", "crash"}

\* the PG_TRY() block and the rest of aggfunc_catalog_lookup_by_oid
LookupFinish ==
    /\ lastCall.op = "populating"
    /\ \E pop \in { PopulateEntry(pg_proc, NewEntry(lastCall.oid),
                                   lastCall.oid) } :
          IF lastCall.discarded = {}
            THEN \E r \in { PopulatedResult(aggfunc_catalog_htable,
                                   pgstrom_enable_numeric_aggfuncs,
                                   lastCall.oid, pop) } :
                    /\ aggfunc_catalog_htable' = r.htable
                    /\ lastCall' = [NoCall EXCEPT
                                       !.op = "lookup", !.oid = lastCall.oid,
                                       !.status = r.status, !.entry = r.entry,
                                       !.error = r.error, !.queried = TRUE,
                                       !.scanned = r.scanned]
            ELSE \E outcome \in DanglingOutcomes(pop) :
                    /\ UNCHANGED aggfunc_catalog_htable
                    /\ lastCall' = [NoCall EXCEPT
                                       !.op = "lookup", !.oid = lastCall.oid,
                                       !.status = outcome, !.entry = pop.entry,
                                       !.error = pop.error, !.queried = TRUE,
                                       !.scanned = pop.scanned,
                                       !.discarded = lastCall.discarded,
                                       !.freed_access =
                                           AccessesAfterCallback(lastCall.oid,
                                                                 pop)
                                           \cup (IF outcome = "entry"
                                                   THEN {"return"} ELSE {})]
    /\ UNCHANGED <<pg_proc_version, pgstrom_enable_numeric_aggfuncs, plan_vars>>

NextRace ==
    \/ \E aggfn_oid \in AggFnOids : LookupEnter(aggfn_oid)
    \/ CallbackInLookup
    \/ LookupFinish

SpecRace == InitRace /\ [][NextRace]_vars

(***************************************************************************)
(* Execution of a query and of its split plan over a table that the device *)
(* reads in batches.  A value is <<>> (NULL) or <<n>>; a row of the table  *)
(* has the columns k, x, n and b.  What the aggregate, partial and final   *)
(* functions compute is not in this file: it is taken from the comments of *)
(* aggfunc_catalog_array, COUNT = SUM(NROWS()), MIN(X) = MIN(PMIN(X)),     *)
(* SUM(X) = SUM(PSUM(X)).                                                  *)
(***************************************************************************)
TableRows ==
    { [k |-> k, x |-> x, n |-> x, b |-> b] :
        k \in 1..MaxGroups, x \in 1..2, b \in BOOLEAN }

\* between one and MaxBatch batches of at most MaxBatch rows each
BatchLists ==
    LET batch == UNION { [1..n -> TableRows] : n \in 0..MaxBatch }
    IN  UNION { [1..m -> batch] : m \in 1..MaxBatch }

RECURSIVE Flatten(_)
Flatten(batches) ==
    IF batches = <<>> THEN <<>> ELSE Head(batches) \o Flatten(Tail(batches))

RECURSIVE EvalExpr(_, _)
\* the value of a scalar expression on a row: a column, or a cast of one
EvalExpr(expr, row) ==
    CASE expr.tag = "Var"         -> <<row[expr.varname]>>
      [] expr.tag = "RelabelType" -> EvalExpr(expr.arg, row)
      [] expr.tag = "FuncExpr"    -> EvalExpr(expr.args[1], row)
      [] OTHER                    -> <<>>

\* what a function does with the values it is fed
FunctionKind(func_oid) ==
    CASE func_oid \in {COUNT_STAR, 16401}       -> "count"
      [] func_oid \in {SUM_INT8, 16402, 16411}  -> "sum"
      [] func_oid \in {MIN_NUMERIC, 16403, 16412} -> "min"
      [] OTHER -> "none"

RECURSIVE SumOf(_)
SumOf(vals) == IF vals = <<>> THEN 0 ELSE Head(vals)[1] + SumOf(Tail(vals))

\* count, sum or min of the values that are not NULL
Reduce(kind, vals) ==
    LET nn == SelectSeq(vals, LAMBDA v : v # <<>>)
    IN  CASE kind = "count" -> <<Len(nn)>>
          [] kind = "sum"   -> IF nn = <<>> THEN <<>> ELSE <<SumOf(nn)>>
          [] kind = "min"   ->
               IF nn = <<>> THEN <<>>
               ELSE CHOOSE v \in { nn[i] : i \in 1..Len(nn) } :
                       \A i \in 1..Len(nn) : v[1] <= nn[i][1]
          [] OTHER -> <<>>

\* an aggregate call (Aggref, which may have a filter) or a partial function
\* call (FuncExpr, which has none) over rows of the table
CallOverRows(call, func_oid, rows) ==
    LET seen == IF "aggfilter" \in DOMAIN call /\ call.aggfilter # NullNode
                  THEN SelectSeq(rows, LAMBDA r :
                                   EvalExpr(call.aggfilter, r) = <<TRUE>>)
                  ELSE rows
    IN  Reduce(FunctionKind(func_oid),
               [i \in 1..Len(seen) |->
                   IF call.args = <<>> THEN <<0>>
                   ELSE EvalExpr(call.args[1], seen[i])])

\* the groups of a list of rows: one per key, or one in all without GROUP BY
GroupsOf(rows, parse) ==
    IF parse.groupClause = <<>> THEN {0}
    ELSE { rows[i].k : i \in 1..Len(rows) }

RowsOfGroup(rows, parse, g) ==
    IF parse.groupClause = <<>> THEN rows
    ELSE SelectSeq(rows, LAMBDA r : r.k = g)

\* the rows the query returns
OriginalOutput(q, rows) ==
    { [k |-> g,
       cols |-> [j \in 1..Len(q.upper_target) |->
                   IF q.upper_target[j].expr.tag = "Aggref"
                     THEN CallOverRows(q.upper_target[j].expr,
                                       q.upper_target[j].expr.aggfnoid,
                                       RowsOfGroup(rows, q.parse, g))
                     ELSE <<g>>]] : g \in GroupsOf(rows, q.parse) }

\* the rows the partial stage returns for the batches: target_partial over
\* each group of each batch
PartialOutput(target_partial, parse, batches) ==
    UNION { { [k |-> g, batch |-> i,
               cols |-> [j \in 1..Len(target_partial) |->
                           IF target_partial[j].sortgroupref # 0
                             THEN <<g>>
                             ELSE CallOverRows(target_partial[j].expr,
                                      target_partial[j].expr.funcid,
                                      RowsOfGroup(batches[i], parse, g))]] :
               g \in GroupsOf(batches[i], parse) } :
            i \in 1..Len(batches) }

\* a final aggregate function over its column of the partial rows
FinalOverRows(aggref, target_partial, prows) ==
    LET j == CHOOSE j \in 1..Len(target_partial) :
                 target_partial[j].expr = aggref.args[1]
        batch == { r.batch : r \in prows }
        val(i) == (CHOOSE r \in prows : r.batch = i).cols[j]
        order == CHOOSE f \in [1..Cardinality(batch) -> batch] :
                     \A a, b \in 1..Cardinality(batch) : a # b => f[a] # f[b]
    IN  Reduce(FunctionKind(aggref.aggfnoid),
               [i \in 1..Cardinality(batch) |-> val(order[i])])

\* the rows the final stage returns: target_final over each group of the
\* partial rows
FinalOutput(target_final, target_partial, parse, prows) ==
    { [k |-> g,
       cols |-> [j \in 1..Len(target_final) |->
                   IF target_final[j].expr.tag = "Aggref"
                     THEN FinalOverRows(target_final[j].expr, target_partial,
                                        { r \in prows : r.k = g })
                     ELSE <<g>>]] : g \in { r.k : r \in prows } }

SplitItems ==
    { Column(a, 0) : a \in { CountStar, SumX, SumFilter, MinNumeric } }

\* a query of one aggregate call, with or without GROUP BY k, whose target
\* lists are about to be built, and the batches of its table
InitSplit ==
    /\ aggfunc_catalog_htable = NullHtable
    /\ pg_proc_version = "good"
    /\ pgstrom_enable_numeric_aggfuncs = TRUE
    /\ lastCall = NoCall
    /\ pc = "build"
    /\ \E agg \in SplitItems :
          \E tlist \in { <<agg>>, <<KeyColumn, agg>> } :
              root = Query(tlist, NullNode, FALSE, TRUE)
    /\ \E batches \in BatchLists :
          env = [Environment(TRUE, <<SerialPath, ParallelPath>>, MaxGroups,
                             work_mem * 1024) EXCEPT !.batches = batches]
    /\ try_parallel = 0
    /\ arg_try_parallel = FALSE
    /\ con = EmptyContext(SerialPath, 0, env.task_kind)
    /\ agg_calls = <<>>
    /\ build_ret = "none"
    /\ part_path = NullPath
    /\ pathlist = <<>>
    /\ error = ""
    /\ output = NoOutput

\* the query and the plan of the target lists that were built are executed
ExecuteSplit ==
    /\ pc = "partial"
    /\ \E prows \in { PartialOutput(con.target_partial, root.parse,
                                     env.batches) } :
          output' = [ran |-> TRUE,
                     original |-> OriginalOutput(root, Flatten(env.batches)),
                     partial |-> prows,
                     split |-> FinalOutput(con.target_final, con.target_partial,
                                           root.parse, prows)]
    /\ pc' = "done"
    /\ UNCHANGED <<cache_vars, root, env, try_parallel, arg_try_parallel, con,
                   agg_calls, build_ret, part_path, pathlist, error>>

SpecSplit == InitSplit /\ [][BuildPathTarget \/ ExecuteSplit]_vars

(***************************************************************************)
(* Properties                                                              *)
(***************************************************************************)
Last(seq) == seq[Len(seq)]

\* the aggregate call carries ORDER BY, DISTINCT or an ordered-set kind
HasModifier(aggref) ==
    aggref.aggorder \/ aggref.aggdistinct \/ aggref.aggkind # "n"

\* a column of the upper target list that is not a grouping key and is an
\* aggregate call with a modifier
UpperHasModifierAggregate ==
    \E i \in 1..Len(root.upper_target) :
        LET c == root.upper_target[i]
        IN  /\ c.expr.tag = "Aggref"
            /\ HasModifier(c.expr)

\* C1: every call of make_alternative_aggref on an aggregate with ORDER BY,
\* DISTINCT or an ordered-set kind returns NULL, raises nothing, makes no
\* catalog lookup and appends nothing to the partial target list (and so to
\* the action list); when the upper target list has such a column,
\* xpugroupby_build_path_target returns false; the one way past that is an
\* error raised for an earlier column without modifier, which needs an
\* inconsistent function catalog.
C1_ModifierAggregateDeclines ==
    /\ (build_ret = "error") => pg_proc_version # "good"
    /\ \A i \in 1..Len(agg_calls) :
          HasModifier(agg_calls[i].aggref) =>
             /\ agg_calls[i].status = "null"
             /\ ~agg_calls[i].looked_up
             /\ agg_calls[i].partial_after = agg_calls[i].partial_before
    /\ (build_ret # "none" /\ UpperHasModifierAggregate) =>
          \/ build_ret = "false"
          \/ /\ build_ret = "error"
             /\ agg_calls # <<>>
             /\ Last(agg_calls).status = "error"
             /\ ~HasModifier(Last(agg_calls).aggref)

C1_Witness ==
    /\ build_ret = "false"
    /\ agg_calls # <<>>
    /\ Last(agg_calls).aggref.aggdistinct
    /\ Last(agg_calls).status = "null"
    /\ aggfunc_catalog_htable = NullHtable
    /\ con.target_partial = <<>>

RECURSIVE ContainsNull(_)
\* the expression is, or has at some depth, a missing (NULL) sub-expression
ContainsNull(e) ==
    CASE e = NullNode -> TRUE
      [] e.tag \in {"OpExpr", "FuncExpr", "Aggref"} ->
            \E i \in 1..Len(e.args) : ContainsNull(e.args[i])
      [] e.tag = "List" ->
            \E i \in 1..Len(e.elems) : ContainsNull(e.elems[i])
      [] e.tag = "RelabelType" -> ContainsNull(e.arg)
      [] OTHER -> FALSE

HasNullSubExpression(qual) == qual # NullNode /\ ContainsNull(qual)

\* C2: when an aggregate call of the HAVING predicate cannot be rewritten,
\* xpugroupby_build_path_target does not return true, and no final
\* aggregation path gets a HAVING predicate with a missing sub-expression.
C2_HavingFailureAborts ==
    /\ build_ret = "true" =>
          /\ \A i \in 1..Len(agg_calls) : agg_calls[i].status = "node"
          /\ ~HasNullSubExpression(con.havingQual)
    /\ \A i \in 1..Len(pathlist) : ~HasNullSubExpression(pathlist[i].qual)

\* C3: when xpugroupby_build_path_target returns true, every grouping key
\* column of the partial target list is behind every partial-aggregate
\* column.
C3_KeysAfterAggregates ==
    build_ret = "true" =>
        \A i, j \in 1..Len(con.target_partial) :
            ( /\ con.target_partial[i].sortgroupref # 0
              /\ con.target_partial[j].sortgroupref = 0 ) => i > j

\* C4: the row estimate of the partial aggregation path is the number of
\* groups computed by xpupreagg_add_custompath for the attempt.
C4_PartialRowsAreNumGroups ==
    part_path.pathtype = "CustomScan" => part_path.rows = NumGroups

\* C5: in the first (non-parallel) attempt the partial path goes to
\* try_add_final_groupby_paths as it is, without gather stage and without
\* being abandoned, and without GROUP BY that adds one path.
C5_SerialAttemptGoesToFinal ==
    [][ /\ (pc = "parallel" /\ try_parallel = 0) =>
              (pc' = "final" /\ part_path' = part_path)
        /\ (pc = "final" /\ try_parallel = 0 /\ root.parse.groupClause = <<>>) =>
              Len(pathlist') = Len(pathlist) + 1 ]_vars

\* the parallel variant is requested, by the loop or by the parameter
ParallelRequested == try_parallel > 0 \/ arg_try_parallel

\* C6: when the parallel variant is requested, a partial path that is
\* parallel aware with at least one worker is wrapped by a gather path of
\* rows x workers rows and the final aggregation goes on top of the gather
\* path; any other partial path ends the attempt with no path added.
C6_ParallelAttemptGathers ==
    [][ /\ (pc = "parallel" /\ ParallelRequested) =>
              IF part_path.parallel_aware /\ part_path.parallel_workers > 0
                THEN /\ pc' = "final"
                     /\ part_path'.pathtype = "Gather"
                     /\ part_path'.subpath = part_path
                     /\ part_path'.rows =
                            part_path.rows * part_path.parallel_workers
                     /\ pathlist' = pathlist
                ELSE /\ pc' = "loop"
                     /\ try_parallel' = try_parallel + 1
                     /\ pathlist' = pathlist
        /\ (pc = "final" /\ ParallelRequested) =>
              /\ part_path.pathtype = "Gather"
              /\ pathlist' # pathlist => Last(pathlist').subpath = part_path
      ]_vars

C6_Witness ==
    /\ pc = "loop"
    /\ try_parallel = 2
    /\ Len(pathlist) = 2
    /\ Last(pathlist).subpath.pathtype = "Gather"
    /\ Last(pathlist).subpath.rows =
           Last(pathlist).subpath.subpath.rows * MaxWorkers

\* C7: the path list of group_rel changes only in the last step of an
\* attempt, by one appended path, after target building returned true and
\* the partial path was built and wrapped if requested; an attempt whose
\* target building returns false, and a call that bails out, leave it as it
\* was.
C7_PathAddedLast ==
    [][ /\ pathlist' # pathlist =>
              /\ pc = "final" /\ pc' = "loop"
              /\ build_ret = "true"
              /\ part_path.pathtype \in {"CustomScan", "Gather"}
              /\ arg_try_parallel => part_path.pathtype = "Gather"
              /\ Len(pathlist') = Len(pathlist) + 1
              /\ SubSeq(pathlist', 1, Len(pathlist)) = pathlist
        /\ (pc = "build" /\ build_ret' = "false") =>
              (pc' = "loop" /\ pathlist' = pathlist)
        /\ ( /\ pc = "hook"
             /\ \/ ~env.enabled
                \/ root.parse.groupingSets
                \/ ~root.parse.hashable ) =>
              (pc' = "done" /\ pathlist' = pathlist)
        /\ pc = "done" => pathlist' = pathlist ]_vars

C7_Witness ==
    /\ pc = "done"
    /\ build_ret = "false"
    /\ env.input_paths[2] # NullPath
    /\ pathlist = <<CoreAggPath>>

\* C8: a lookup that directly follows a lookup of the same identifier which
\* returned (an entry or NULL) returns the same, consults neither the live
\* function catalog nor aggfunc_catalog_array and leaves the table as it is.
C8_SecondLookupIsCached ==
    [][ \A o \in AggFnOids :
          ( /\ lastCall.op = "lookup"
            /\ lastCall.oid = o
            /\ lastCall.status # "error"
            /\ Lookup(o) ) =>
              /\ lastCall'.status = lastCall.status
              /\ lastCall'.entry = lastCall.entry
              /\ ~lastCall'.queried
              /\ ~lastCall'.scanned
              /\ aggfunc_catalog_htable' = aggfunc_catalog_htable ]_vars

C8_Witness ==
    /\ lastCall.op = "lookup"
    /\ lastCall.oid = CORR3
    /\ lastCall.again
    /\ lastCall.status = "null"
    /\ ~lastCall.entry.is_valid_entry
    /\ ~lastCall.queried

\* the functions an entry names exist in pg_proc, with the return type and
\* the argument count the entry records
LiveConsistent(entry) ==
    /\ \E q \in pg_proc : /\ q.oid = entry.partial_func_oid
                          /\ q.prorettype = entry.partial_func_rettype
                          /\ q.pronargs = entry.partial_func_nargs
    /\ \E q \in pg_proc : q.oid = entry.final_func_oid /\ q.isagg

\* C9: an invalidation leaves no entry in the cache, and the lookup of any
\* identifier that was cached before it consults the live function catalog
\* and returns what pg_proc says now: an error for a function that is gone,
\* else NULL or an entry whose functions are those of pg_proc.
C9_InvalidationRederives ==
    [][ /\ lastCall'.op = "invalidate" =>
              aggfunc_catalog_htable' = NullHtable
        /\ \A o \in AggFnOids :
              ( /\ lastCall.op = "invalidate"
                /\ \E e \in lastCall.discarded : e.aggfn_oid = o
                /\ Lookup(o) ) =>
                  /\ lastCall'.queried
                  /\ (\A q \in pg_proc : q.oid # o) => lastCall'.status = "error"
                  /\ lastCall'.status = "entry" => LiveConsistent(lastCall'.entry)
      ]_vars

C9_Witness ==
    /\ lastCall.op = "lookup"
    /\ lastCall.rederived
    /\ lastCall.oid = SUM_INT8
    /\ pg_proc_version = "recreated"
    /\ lastCall.status = "entry"
    /\ lastCall.entry.partial_func_oid = 16502

CachedEntries == hash_find(aggfunc_catalog_htable, lastCall.oid)

\* C11: a lookup that returns (no error) returns the entry exactly when the
\* cached entry is valid and, if numeric aware, pg_strom.enable_numeric_aggfuncs
\* is on at that call; a switch of pg_strom.enable_numeric_aggfuncs leaves the
\* table as it is, and a lookup that answers from the table leaves its
\* entries as they are.
C11_ToggleAtLookupTime ==
    [][ /\ \A o \in AggFnOids :
              (Lookup(o) /\ lastCall'.status # "error") =>
                 \E e \in hash_find(aggfunc_catalog_htable', o) :
                    /\ lastCall'.entry = e
                    /\ (lastCall'.status = "entry") <=>
                          ( /\ e.is_valid_entry
                            /\ e.numeric_aware => pgstrom_enable_numeric_aggfuncs )
                    /\ ~lastCall'.queried =>
                          aggfunc_catalog_htable'.entries =
                              aggfunc_catalog_htable.entries
        /\ pgstrom_enable_numeric_aggfuncs' # pgstrom_enable_numeric_aggfuncs =>
              aggfunc_catalog_htable' = aggfunc_catalog_htable ]_vars

\* min(numeric) was cached while the switch was on, the switch went off with
\* no invalidation, and the repeated lookup returns NULL from the cache
C11_Witness ==
    /\ lastCall.op = "lookup"
    /\ lastCall.oid = MIN_NUMERIC
    /\ lastCall.status = "null"
    /\ ~lastCall.queried
    /\ ~pgstrom_enable_numeric_aggfuncs
    /\ \E e \in CachedEntries : e.is_valid_entry /\ e.numeric_aware
    /\ \E e \in aggfunc_catalog_htable.entries :
          e.aggfn_oid = COUNT_STAR /\ e.is_valid_entry /\ ~e.numeric_aware

\* the aggregate call has the variadic flag, or not as many arguments as the
\* partial function of its cached entry declares
VariadicOrArityMismatch(aggref) ==
    \/ aggref.aggvariadic
    \/ \E e \in aggfunc_catalog_htable.entries :
          /\ e.aggfn_oid = aggref.aggfnoid
          /\ e.is_valid_entry
          /\ e.partial_func_nargs # Len(aggref.args)

ColumnHasAction(column, action) ==
    IF column.sortgroupref # 0 THEN action = "KAGG_ACTION__VREF"
    ELSE /\ column.expr.tag = "FuncExpr"
         /\ \E e \in aggfunc_catalog_htable.entries :
               /\ e.is_valid_entry
               /\ e.partial_func_oid = column.expr.funcid
               /\ e.partial_func_action = action

\* C13: after every call of make_alternative_aggref, and when
\* xpugroupby_build_path_target is left, groupby_actions is as long as
\* target_partial, and at the end each action is the one of the column at
\* the same position.
C13_ActionsInLockStep ==
    /\ \A i \in 1..Len(agg_calls) :
          agg_calls[i].actions_after = agg_calls[i].partial_after
    /\ Len(con.groupby_actions) = Len(con.target_partial)
    /\ \A i \in 1..Len(con.target_partial) :
          ColumnHasAction(con.target_partial[i], con.groupby_actions[i])

\* an aggregate is asked for twice and appended once, beside a grouping key
C13_Witness ==
    /\ build_ret = "true"
    /\ Len(con.target_partial) = 2
    /\ con.target_partial[2].sortgroupref # 0
    /\ con.groupby_actions[2] = "KAGG_ACTION__VREF"
    /\ con.groupby_actions[1] # "KAGG_ACTION__VREF"
    /\ \E i \in 1..Len(agg_calls) :
          /\ agg_calls[i].status = "node"
          /\ agg_calls[i].partial_after = agg_calls[i].partial_before

\* the path try_add_final_groupby_paths is to add for a strategy
IsFinalAggPath(p, aggstrategy) ==
    /\ p.pathtype = "Agg"
    /\ p.aggstrategy = aggstrategy
    /\ p.subpath = part_path
    /\ p.pathtarget = con.target_final
    /\ p.qual = con.havingQual
    /\ p.groupClause = root.parse.groupClause

\* C14: the step try_add_final_groupby_paths appends exactly one AGG_PLAIN
\* path when the query has no GROUP BY clause; with a GROUP BY clause it
\* appends exactly one AGG_HASHED path when hashTableSz <= work_mem * 1024
\* and leaves the path list as it was otherwise; the appended path is over
\* part_path, with target_final and havingQual of the attempt.
C14_FinalPathByStrategy ==
    [][ pc = "final" =>
          IF root.parse.groupClause = <<>>
            THEN /\ Len(pathlist') = Len(pathlist) + 1
                 /\ SubSeq(pathlist', 1, Len(pathlist)) = pathlist
                 /\ IsFinalAggPath(Last(pathlist'), "AGG_PLAIN")
          ELSE IF env.hashTableSz <= work_mem * 1024
            THEN /\ Len(pathlist') = Len(pathlist) + 1
                 /\ SubSeq(pathlist', 1, Len(pathlist)) = pathlist
                 /\ IsFinalAggPath(Last(pathlist'), "AGG_HASHED")
          ELSE pathlist' = pathlist ]_vars

\* a hashed path was added for a hash table of exactly work_mem * 1024
\* bytes, with a rewritten HAVING predicate
C14_Witness ==
    /\ Len(pathlist) > 1
    /\ Last(pathlist).pathtype = "Agg"
    /\ Last(pathlist).aggstrategy = "AGG_HASHED"
    /\ Last(pathlist).qual # NullNode
    /\ Last(pathlist).qual = con.havingQual
    /\ env.hashTableSz = work_mem * 1024

\* the cost parameters of the device class of the attempt
XpuOfAttempt == xpu_cost_parameters(con.task_kind, env.dev)

\* C15: the partial path has startup_cost = input startup_cost +
\* operator_cost * number of grouping keys * input rows + (per_tuple * input
\* rows + startup of the partial target list) * operator_ratio, final_cost =
\* tuple_cost * number of groups of the query, times (0.5 + parallel_workers)
\* over a parallel input path, and total_cost = startup_cost + (input
\* total_cost - input startup_cost - final cost of the input's plan info) +
\* final_cost, with the parameters of the device class of task_kind; no
\* partial path is built for another device class.
C15_PartialPathCosts ==
    /\ part_path.pathtype = "CustomScan" =>
          /\ con.task_kind \in {"DEVKIND__NVIDIA_GPU", "DEVKIND__NVIDIA_DPU"}
          /\ part_path.startup_cost =
                con.input_path.startup_cost
                + XpuOfAttempt.operator_cost * Len(root.parse.groupClause)
                                             * con.input_path.rows
                + (env.target_cost.per_tuple * con.input_path.rows
                   + env.target_cost.startup) * XpuOfAttempt.operator_ratio
          /\ part_path.final_cost =
                IF con.input_path.parallel_workers > 0
                  THEN (XpuOfAttempt.tuple_cost * NumGroups
                        * (1 + 2 * con.input_path.parallel_workers)) \div 2
                  ELSE XpuOfAttempt.tuple_cost * NumGroups
          /\ part_path.total_cost =
                part_path.startup_cost
                + (con.input_path.total_cost - con.input_path.startup_cost
                   - con.input_path.pp_info.final_cost)
                + part_path.final_cost
    /\ (error = "Bug? unexpected task_kind") <=>
          (pc = "error" /\ con.task_kind = "DEVKIND__NONE")

\* C16: the startup_cost and the total_cost of the partial path are not
\* above those prepend_partial_groupby_custompath computes for the same
\* context with any larger number of input rows.
C16_CostsMonotonicInRows ==
    part_path.pathtype = "CustomScan" =>
        \A rows \in con.input_path.rows .. MaxRows + 1 :
            /\ PartialCosts([con EXCEPT !.input_path.rows = rows], root.parse,
                            env.target_cost, XpuOfAttempt).startup_cost
                  >= part_path.startup_cost
            /\ PartialCosts([con EXCEPT !.input_path.rows = rows], root.parse,
                            env.target_cost, XpuOfAttempt).total_cost
                  >= part_path.total_cost

\* a partial path over a parallel input path whose costs grow with the
\* rows, by the grouping keys and by the partial target list
C16_Witness ==
    /\ part_path.pathtype = "CustomScan"
    /\ con.input_path.rows = 1
    /\ con.input_path.parallel_workers > 0
    /\ root.parse.groupClause # <<>>
    /\ XpuOfAttempt.operator_cost > 0
    /\ env.target_cost.per_tuple > 0
    /\ part_path.startup_cost > con.input_path.startup_cost
    /\ PartialCosts([con EXCEPT !.input_path.rows = 2], root.parse,
                    env.target_cost, XpuOfAttempt).total_cost
          > part_path.total_cost

\* the element of aggfunc_catalog_array a cached entry was resolved from
CatalogOf(entry) == aggfunc_catalog_array[entry.aggfn_oid - 10000]

\* C17: each element of aggfunc_catalog_array declares a partial function
\* with the number of arguments its action fixes and a final function with
\* one argument of the return type its action fixes; and a lookup of its
\* aggregate function in the live catalog of these declarations does not
\* raise an error and caches a valid entry with that argument count, that
\* return type and the action of the element.
C17_StaticCatalogResolves ==
    /\ \A i \in CatalogIndexes :
          /\ PartialFuncExpect(aggfunc_catalog_array[i].partfn_action).ok
          /\ Len(SignatureTypes(Unprefixed(
                    aggfunc_catalog_array[i].partfn_signature)))
                = PartialFuncExpect(
                    aggfunc_catalog_array[i].partfn_action).func_nargs
          /\ SignatureTypes(Unprefixed(
                    aggfunc_catalog_array[i].finalfn_signature))
                = << PartialFuncExpect(
                       aggfunc_catalog_array[i].partfn_action).type_oid >>
    /\ lastCall.op = "lookup" =>
          /\ lastCall.status # "error"
          /\ lastCall.queried /\ lastCall.scanned
          /\ lastCall.entry \in aggfunc_catalog_htable.entries
    /\ \A e \in aggfunc_catalog_htable.entries :
          /\ e.is_valid_entry
          /\ e.partial_func_action = CatalogOf(e).partfn_action
          /\ e.numeric_aware = CatalogOf(e).numeric_aware
          /\ e.partial_func_nargs =
                PartialFuncExpect(e.partial_func_action).func_nargs
          /\ e.partial_func_rettype =
                PartialFuncExpect(e.partial_func_action).type_oid
          /\ \E f \in SearchProcOid(pg_proc, e.final_func_oid) :
                f.proargtypes = << e.partial_func_rettype >>

\* every element of aggfunc_catalog_array was looked up, the covariance
\* ones included
C17_Witness ==
    /\ pg_proc_version = "declared"
    /\ Cardinality(aggfunc_catalog_htable.entries) = Len(aggfunc_catalog_array)
    /\ lastCall.op = "lookup" /\ lastCall.status = "entry"
    /\ \E e \in aggfunc_catalog_htable.entries :
          e.partial_func_action = "KAGG_ACTION__COVAR" /\ e.partial_func_nargs = 2
    /\ \E e \in aggfunc_catalog_htable.entries :
          e.partial_func_action = "KAGG_ACTION__NROWS_ANY"
             /\ e.partial_func_nargs = 0

\* the expression, or one of its arguments, is the filter predicate
CarriesFilter(expr, aggfilter) ==
    \/ expr = aggfilter
    \/ /\ "aggfilter" \in DOMAIN expr
       /\ expr.aggfilter = aggfilter
    \/ /\ "args" \in DOMAIN expr
       /\ \E k \in 1..Len(expr.args) : expr.args[k] = aggfilter

\* C20: when target building succeeded, no aggregate call of the final
\* target list has a filter, each rewritten aggregate call with a FILTER
\* predicate has a column of the partial target list that carries the
\* predicate, and two rewritten aggregate calls that differ in the filter
\* only have two partial columns.
C20_FilterInPartialFunction ==
    build_ret = "true" =>
        /\ \A j \in 1..Len(con.target_final) :
              con.target_final[j].expr.tag = "Aggref" =>
                  con.target_final[j].expr.aggfilter = NullNode
        /\ \A i \in 1..Len(agg_calls) :
              ( /\ agg_calls[i].status = "node"
                /\ agg_calls[i].aggref.aggfilter # NullNode ) =>
                  \E j \in 1..Len(con.target_partial) :
                      CarriesFilter(con.target_partial[j].expr,
                                    agg_calls[i].aggref.aggfilter)
        /\ \A i, k \in 1..Len(agg_calls) :
              ( /\ agg_calls[i].status = "node"
                /\ agg_calls[k].status = "node"
                /\ agg_calls[i].aggref # agg_calls[k].aggref
                /\ [agg_calls[i].aggref EXCEPT !.aggfilter = NullNode] =
                      [agg_calls[k].aggref EXCEPT !.aggfilter = NullNode] ) =>
                  Len(con.target_partial) >= 2

\* C19: a lookup during which the invalidation callback ran neither wrote
\* to, read nor returned an entry of the table the callback destroyed, and
\* its error handler did not call hash_search to remove an entry from the
\* table that no longer exists.
C19_NoAccessToDiscardedCache ==
    lastCall.op = "lookup" => lastCall.freed_access = {}

\* C18: the rows the split plan returns for the batches (the partial
\* functions over each batch, the final functions over the partial rows)
\* are the rows the query returns for all rows of the table, whatever the
\* batches are.
C18_SplitRoundTrip ==
    output.ran => output.split = output.original

\* the cached entries resolved from the element of aggfunc_catalog_array
\* with this aggregate function signature
EntriesOf(aggfn_signature) ==
    { e \in aggfunc_catalog_htable.entries :
        CatalogOf(e).aggfn_signature = aggfn_signature }

\* C21: the entry cached for corr(float8,float8) has the function corr of
\* one bytea argument in the schema pgstrom as its final function and
\* pgstrom.pcovar(float8,float8) as its partial function, and its final
\* function is neither the final function of the entry of
\* covar_samp(float8,float8) nor that of covar_pop(float8,float8).
C21_CorrHasOwnFinalFunction ==
    \A e \in EntriesOf("corr(float8,float8)") :
        /\ e.is_valid_entry
        /\ \E f \in SearchProcOid(pg_proc, e.final_func_oid) :
              /\ f.proname = "corr"
              /\ f.pronamespace = get_namespace_oid("pgstrom")
              /\ f.proargtypes = << BYTEAOID >>
        /\ \E p \in SearchProcOid(pg_proc, e.partial_func_oid) :
              /\ p.proname = "pcovar"
              /\ p.pronamespace = get_namespace_oid("pgstrom")
              /\ p.proargtypes = << FLOAT8OID, FLOAT8OID >>
        /\ \A o \in EntriesOf("covar_samp(float8,float8)")
                      \cup EntriesOf("covar_pop(float8,float8)") :
              o.final_func_oid # e.final_func_oid

\* C22: each call of make_alternative_aggref that returned to its caller,
\* with a node or with NULL, holds as many references to catalog tuples
\* after it as before it.
C22_TupleReferencesReleased ==
    \A i \in 1..Len(agg_calls) :
        agg_calls[i].status \in {"node", "null"} =>
            agg_calls[i].held_after = agg_calls[i].held_before

====
